---- MODULE Spec2Model ----
(***************************************************************************)
(* Model of the email-authentication test scripts (python-scripts/):       *)
(* utils.py, spf_test.py, dmarc_test.py, dkim_test.py and test_runner.py.  *)
(*                                                                         *)
(* Python strings are TLA+ strings; the string methods the code uses       *)
(* (split, strip, startswith, lower, int, base64 decoding) are computed    *)
(* character by character.  Python's None is the value None below.         *)
(***************************************************************************)
EXTENDS Integers, Sequences, FiniteSets, TLC

VARIABLES
    dns,        \* the resolver's answers: queried name -> [rcode, answers]
    argv,       \* command line of the process being run (after the script name)
    pc,         \* where the process is: "start", "dkim_loop", "run_all", "returned",
                \* or ended: "exit0", "exit1", "crashed" (uncaught exception)
    result,     \* the evaluator's result dict (the runner's result for test_runner.py)
    log,        \* score added by each scoring rule of the latest call, in call order
    sel,        \* dkim_test.process_selectors: index of the next selector of the loop
    valid_count,\* dkim_test.process_selectors: its local counter
    results,    \* test_runner.run_all_tests: its dict test type -> result
    stdout,     \* what the process has printed with output_result
    returned    \* the results returned by the completed calls, oldest first

vars == <<dns, argv, pc, result, log, sel, valid_count, results, stdout, returned>>

(***************************************************************************)
(* Bounds of the model.                                                    *)
(***************************************************************************)
\* How many times an evaluator is called on the same DNS answers.
MaxCalls == 2
\* Longest run of one repeated mechanism in a generated SPF record.
MaxFill == 11
\* Most free mechanisms after the repeated one in a generated SPF record.
MaxTail == 2
\* Most common tags after v=DMARC1 in a generated DMARC record.
MaxTags == 3
\* Most further segments put among the reference tags of a generated DMARC record.
MaxExtra == 1
\* Most candidate selectors that publish a record in a generated DKIM zone.
MaxPublished == 2
\* Most segments of a record handed to a parser directly.
MaxSegments == 3

(***************************************************************************)
(* Python values.                                                          *)
(***************************************************************************)
None == "<None>"

\* bool(v) of a value that is None or a string.
Truthy(v) == v # None /\ v # ""

Range(f) == {f[i] : i \in DOMAIN f}

Contains(list, v) == \E i \in DOMAIN list : list[i] = v

(***************************************************************************)
(* Python string methods.                                                  *)
(***************************************************************************)
Char(s, i) == SubSeq(s, i, i)

\* str.split() and str.strip() without arguments act on ASCII whitespace.
Whitespace == {" ", "\t", "\n", "\r"}

startswith(s, prefix) ==
    Len(s) >= Len(prefix) /\ SubSeq(s, 1, Len(prefix)) = prefix

\* sub in s
contains(s, sub) ==
    \E i \in 1..(Len(s) - Len(sub) + 1) : SubSeq(s, i, i + Len(sub) - 1) = sub

\* The first index >= i of s whose character is in chars, Len(s) + 1 if none.
NextIn(s, i, chars) ==
    IF \E k \in i..Len(s) : Char(s, k) \in chars
    THEN CHOOSE k \in i..Len(s) :
            Char(s, k) \in chars /\ \A m \in i..(k - 1) : Char(s, m) \notin chars
    ELSE Len(s) + 1

\* The first index >= i of s whose character is not in chars, Len(s) + 1 if none.
NextNotIn(s, i, chars) ==
    IF \E k \in i..Len(s) : Char(s, k) \notin chars
    THEN CHOOSE k \in i..Len(s) :
            Char(s, k) \notin chars /\ \A m \in i..(k - 1) : Char(s, m) \in chars
    ELSE Len(s) + 1

\* The last index of s whose character is not in chars, 0 if none.
LastNotIn(s, chars) ==
    IF \E k \in 1..Len(s) : Char(s, k) \notin chars
    THEN CHOOSE k \in 1..Len(s) :
            Char(s, k) \notin chars /\ \A m \in (k + 1)..Len(s) : Char(s, m) \in chars
    ELSE 0

\* s.strip(chars): drop the leading and trailing characters that are in chars.
strip_chars(s, chars) == SubSeq(s, NextNotIn(s, 1, chars), LastNotIn(s, chars))

strip(s) == strip_chars(s, Whitespace)

\* s.split(): the maximal runs of non-whitespace characters, in order.
RECURSIVE split_from(_, _)
split_from(s, i) ==
    LET b == NextNotIn(s, i, Whitespace)
    IN  IF b > Len(s) THEN <<>>
        ELSE LET e == NextIn(s, b, Whitespace)
             IN  <<SubSeq(s, b, e - 1)>> \o split_from(s, e)

split(s) == split_from(s, 1)

\* s.split(sep) for a one-character sep: every piece, the empty ones included.
RECURSIVE split_on_from(_, _, _)
split_on_from(s, sep, i) ==
    LET e == NextIn(s, i, {sep})
    IN  IF e > Len(s) THEN <<SubSeq(s, i, Len(s))>>
        ELSE <<SubSeq(s, i, e - 1)>> \o split_on_from(s, sep, e + 1)

split_on(s, sep) == split_on_from(s, sep, 1)

\* s.split('=', 1): the text before the first '=' and the text after it.
split_eq(s) ==
    LET e == NextIn(s, 1, {"="})
    IN  <<SubSeq(s, 1, e - 1), SubSeq(s, e + 1, Len(s))>>

\* s.replace(c, '') and re.sub(r'\s+', '', s): s without the characters in chars.
RECURSIVE remove_chars_from(_, _, _)
remove_chars_from(s, chars, i) ==
    LET b == NextNotIn(s, i, chars)
    IN  IF b > Len(s) THEN ""
        ELSE LET e == NextIn(s, b, chars)
             IN  SubSeq(s, b, e - 1) \o remove_chars_from(s, chars, e)

remove_chars(s, chars) == remove_chars_from(s, chars, 1)

Upper == <<"A","B","C","D","E","F","G","H","I","J","K","L","M",
           "N","O","P","Q","R","S","T","U","V","W","X","Y","Z">>

Lower == <<"a","b","c","d","e","f","g","h","i","j","k","l","m",
           "n","o","p","q","r","s","t","u","v","w","x","y","z">>

lower_char(c) ==
    IF \E k \in 1..26 : Upper[k] = c
    THEN Lower[CHOOSE k \in 1..26 : Upper[k] = c]
    ELSE c

\* s.lower()
RECURSIVE lower(_)
lower(s) == IF s = "" THEN "" ELSE lower_char(Head(s)) \o lower(Tail(s))

Digits == <<"0","1","2","3","4","5","6","7","8","9">>

IsDigit(c) == \E k \in 1..10 : Digits[k] = c

DigitValue(c) == (CHOOSE k \in 1..10 : Digits[k] = c) - 1

RECURSIVE DecimalValue(_)
DecimalValue(s) ==
    IF s = "" THEN 0
    ELSE 10 * DecimalValue(SubSeq(s, 1, Len(s) - 1)) + DigitValue(Char(s, Len(s)))

\* int(s) accepts surrounding whitespace and one sign around a non-empty run of
\* decimal digits, and raises ValueError on anything else.
Unsigned(s) ==
    LET t == strip(s)
    IN  IF t # "" /\ Char(t, 1) \in {"+", "-"} THEN SubSeq(t, 2, Len(t)) ELSE t

int_raises(s) ==
    LET digits == Unsigned(s)
    IN  digits = "" \/ \E i \in 1..Len(digits) : ~IsDigit(Char(digits, i))

int(s) ==
    IF startswith(strip(s), "-") THEN 0 - DecimalValue(Unsigned(s))
    ELSE DecimalValue(Unsigned(s))

\* sep.join(list)
RECURSIVE join(_, _)
join(sep, list) ==
    IF list = <<>> THEN ""
    ELSE IF Len(list) = 1 THEN list[1]
    ELSE list[1] \o sep \o join(sep, Tail(list))

\* n copies of s, built by doubling.
RECURSIVE Rep(_, _)
Rep(s, n) ==
    IF n = 0 THEN ""
    ELSE LET half == Rep(s, n \div 2)
         IN  IF n % 2 = 0 THEN half \o half ELSE half \o half \o s

\* The sequences over S of length 0..n.
SeqsUpTo(S, n) == UNION {[1..k -> S] : k \in 0..n}

(***************************************************************************)
(* utils.py: the resolver wrapper and the error exit.                      *)
(***************************************************************************)
\* What dns.resolver.resolve finds for a name that the zone does not hold.
NxDomain == [rcode |-> "NXDOMAIN", answers |-> <<>>]

Resolve(name) == IF name \in DOMAIN dns THEN dns[name] ELSE NxDomain

\* dns_lookup: the answers with their outer quotes stripped; [] when resolve raises
\* (NXDOMAIN, no answer, timeout).
dns_lookup(name, record_type) ==
    LET r == Resolve(name)
    IN  IF r.rcode # "NOERROR" THEN <<>>
        ELSE [i \in 1..Len(r.answers) |-> strip_chars(r.answers[i], {"\""})]

\* handle_error prints this object and exits with status 1.
error_result(error_message, domain) ==
    [error |-> TRUE, message |-> error_message, domain |-> domain, result |-> <<>>]

(***************************************************************************)
(* utils.parse_spf_record                                                  *)
(***************************************************************************)
AllQualifiers == {"-all", "~all", "+all", "?all"}

spf_parsed_init ==
    [mechanisms |-> <<>>, includes |-> <<>>, all_mechanism |-> None]

\* parse_spf_part keeping the first all-qualifier instead of the last.
parse_spf_part_first_all(acc, raw) ==
    LET part == strip(raw)
    IN  IF startswith(part, "v=spf1") THEN acc
        ELSE IF startswith(part, "include:")
        THEN [acc EXCEPT !.includes = Append(@, SubSeq(part, 9, Len(part))),
                         !.mechanisms = Append(@, part)]
        ELSE IF \E p \in {"a", "mx", "ip4:", "ip6:", "exists:"} : startswith(part, p)
        THEN [acc EXCEPT !.mechanisms = Append(@, part)]
        ELSE IF part \in AllQualifiers
        THEN [acc EXCEPT !.all_mechanism = IF @ = None THEN part ELSE @,
                         !.mechanisms = Append(@, part)]
        ELSE [acc EXCEPT !.mechanisms = Append(@, part)]

\* One turn of the loop over the parts.
parse_spf_part(acc, raw) ==
    LET part == strip(raw)
    IN  IF startswith(part, "v=spf1") THEN acc
        ELSE IF startswith(part, "include:")
        THEN [acc EXCEPT !.includes = Append(@, SubSeq(part, 9, Len(part))),
                         !.mechanisms = Append(@, part)]
        ELSE IF \E p \in {"a", "mx", "ip4:", "ip6:", "exists:"} : startswith(part, p)
        THEN [acc EXCEPT !.mechanisms = Append(@, part)]
        ELSE IF part \in AllQualifiers
        THEN [acc EXCEPT !.all_mechanism = part, !.mechanisms = Append(@, part)]
        ELSE [acc EXCEPT !.mechanisms = Append(@, part)]

RECURSIVE parse_spf_parts(_, _)
parse_spf_parts(acc, parts) ==
    IF parts = <<>> THEN acc
    ELSE parse_spf_parts(parse_spf_part(acc, Head(parts)), Tail(parts))

parse_spf_record(spf_record) ==
    LET acc == parse_spf_parts(spf_parsed_init, split(spf_record))
    IN  [mechanisms    |-> acc.mechanisms,
         includes      |-> acc.includes,
         all_mechanism |-> acc.all_mechanism,
         includes_all  |-> acc.all_mechanism # None]

(***************************************************************************)
(* spf_test.py                                                             *)
(***************************************************************************)
\* get_spf_record keeping the first record that starts with v=spf1.
RECURSIVE get_spf_record_from_first(_, _, _)
get_spf_record_from_first(txt_records, spf_record, spf_count) ==
    IF txt_records = <<>> THEN <<spf_record, spf_count>>
    ELSE IF startswith(Head(txt_records), "v=spf1")
    THEN get_spf_record_from_first(Tail(txt_records),
            IF spf_record = None THEN Head(txt_records) ELSE spf_record, spf_count + 1)
    ELSE get_spf_record_from_first(Tail(txt_records), spf_record, spf_count)

\* get_spf_record: <<the last record starting with v=spf1 (None if none), their number>>
RECURSIVE get_spf_record_from(_, _, _)
get_spf_record_from(txt_records, spf_record, spf_count) ==
    IF txt_records = <<>> THEN <<spf_record, spf_count>>
    ELSE IF startswith(Head(txt_records), "v=spf1")
    THEN get_spf_record_from(Tail(txt_records), Head(txt_records), spf_count + 1)
    ELSE get_spf_record_from(Tail(txt_records), spf_record, spf_count)

get_spf_record(txt_records) == get_spf_record_from(txt_records, None, 0)

\* check_spf_record_presence: the result it leaves; it returns result.record_found.
check_spf_record_presence(res, spf_record, spf_count) ==
    LET r1 == IF spf_count > 1
              THEN [res EXCEPT
                      !.issues = Append(@, "Multiple SPF records found (RFC violation)"),
                      !.recommendations = Append(@, "Consolidate into a single SPF record")]
              ELSE res
    IN  IF ~Truthy(spf_record)
        THEN [r1 EXCEPT
                !.issues = Append(@, "No SPF record found"),
                !.recommendations = @ \o
                  <<"Create an SPF record to specify authorized mail servers",
                    "Start with \"v=spf1 include:_spf.google.com ~all\" if using Google Workspace",
                    "Use \"v=spf1 mx ~all\" if mail is sent from MX servers only",
                    "Always end with an \"all\" mechanism">>]
        ELSE [r1 EXCEPT !.record_found = TRUE, !.record = spf_record, !.score = @ + 30]

\* score_all_mechanism with the points of "-all" and "~all" exchanged.
score_all_mechanism_swapped(res, parsed) ==
    IF ~parsed.includes_all
    THEN [res EXCEPT
            !.issues = Append(@, "No \"all\" mechanism found"),
            !.recommendations = Append(@, "Add an \"all\" mechanism (e.g., \"-all\", \"~all\")")]
    ELSE IF parsed.all_mechanism = "-all"
    THEN [res EXCEPT
            !.score = @ + 25,
            !.recommendations = Append(@, "Consider upgrading to \"-all\" for stricter policy")]
    ELSE IF parsed.all_mechanism = "~all"
    THEN [res EXCEPT !.score = @ + 40]
    ELSE IF parsed.all_mechanism = "+all"
    THEN [res EXCEPT
            !.score = @ + 5,
            !.issues = Append(@, "\"+all\" allows any server to send mail"),
            !.recommendations = Append(@, "Change \"+all\" to \"~all\" or \"-all\"")]
    ELSE IF parsed.all_mechanism = "?all"
    THEN [res EXCEPT
            !.score = @ + 10,
            !.recommendations = Append(@, "Consider changing \"?all\" to \"~all\" or \"-all\"")]
    ELSE res

score_all_mechanism(res, parsed) ==
    IF ~parsed.includes_all
    THEN [res EXCEPT
            !.issues = Append(@, "No \"all\" mechanism found"),
            !.recommendations = Append(@, "Add an \"all\" mechanism (e.g., \"-all\", \"~all\")")]
    ELSE IF parsed.all_mechanism = "-all"
    THEN [res EXCEPT !.score = @ + 40]
    ELSE IF parsed.all_mechanism = "~all"
    THEN [res EXCEPT
            !.score = @ + 25,
            !.recommendations = Append(@, "Consider upgrading to \"-all\" for stricter policy")]
    ELSE IF parsed.all_mechanism = "+all"
    THEN [res EXCEPT
            !.score = @ + 5,
            !.issues = Append(@, "\"+all\" allows any server to send mail"),
            !.recommendations = Append(@, "Change \"+all\" to \"~all\" or \"-all\"")]
    ELSE IF parsed.all_mechanism = "?all"
    THEN [res EXCEPT
            !.score = @ + 10,
            !.recommendations = Append(@, "Consider changing \"?all\" to \"~all\" or \"-all\"")]
    ELSE res

\* count_dns_lookups counting the ip4: and ip6: mechanisms as well.
count_dns_lookups_with_ip(mechanisms) ==
    Cardinality({i \in DOMAIN mechanisms :
        \E p \in {"include:", "a", "mx", "ip4:", "ip6:", "exists:"} :
            startswith(mechanisms[i], p)})

count_dns_lookups(mechanisms) ==
    Cardinality({i \in DOMAIN mechanisms :
        \/ startswith(mechanisms[i], "include:")
        \/ startswith(mechanisms[i], "a")
        \/ startswith(mechanisms[i], "mx")
        \/ startswith(mechanisms[i], "exists:")})

\* check_dns_lookup_limit with the limit off by one (> 11).
check_dns_lookup_limit_off_by_one(res, dns_lookup_count) ==
    IF dns_lookup_count > 11
    THEN [res EXCEPT
            !.issues = Append(@, "Too many DNS lookups (" \o ToString(dns_lookup_count)
                                  \o "/10 limit)"),
            !.recommendations = Append(@, "Reduce DNS lookups to stay under RFC limit")]
    ELSE IF dns_lookup_count > 8
    THEN [res EXCEPT
            !.recommendations = Append(@, "Close to DNS lookup limit, consider optimization")]
    ELSE [res EXCEPT !.score = @ + 10]

check_dns_lookup_limit(res, dns_lookup_count) ==
    IF dns_lookup_count > 10
    THEN [res EXCEPT
            !.issues = Append(@, "Too many DNS lookups (" \o ToString(dns_lookup_count)
                                  \o "/10 limit)"),
            !.recommendations = Append(@, "Reduce DNS lookups to stay under RFC limit")]
    ELSE IF dns_lookup_count > 8
    THEN [res EXCEPT
            !.recommendations = Append(@, "Close to DNS lookup limit, consider optimization")]
    ELSE [res EXCEPT !.score = @ + 10]

score_mechanisms(res, parsed) ==
    LET has_mx      == \E i \in DOMAIN parsed.mechanisms : startswith(parsed.mechanisms[i], "mx")
        has_include == Len(parsed.includes) > 0
    IN  [res EXCEPT !.score = @ + (IF has_mx THEN 5 ELSE 0) + (IF has_include THEN 10 ELSE 0)]

trusted_includes ==
    {"_spf.google.com", "spf.protection.outlook.com", "include.mailgun.org",
     "servers.mcsv.net", "_spf.salesforce.com"}

score_trusted_includes(res, includes) ==
    IF \E i \in DOMAIN includes : includes[i] \in trusted_includes
    THEN [res EXCEPT !.score = @ + 5]
    ELSE res

check_record_length(res, spf_record) ==
    IF Len(spf_record) > 255
    THEN [res EXCEPT !.issues = Append(@, "SPF record exceeds 255 character limit")]
    ELSE res

RECURSIVE check_deprecated_mechanisms(_, _)
check_deprecated_mechanisms(res, mechanisms) ==
    IF mechanisms = <<>> THEN res
    ELSE LET mechanism == Head(mechanisms)
             r1 == IF startswith(mechanism, "ptr")
                   THEN [res EXCEPT
                           !.issues = Append(@, "Deprecated mechanism found: " \o mechanism),
                           !.recommendations = Append(@, "Remove deprecated \"ptr\" mechanism")]
                   ELSE res
         IN  check_deprecated_mechanisms(r1, Tail(mechanisms))

spf_validate_overall(res, spf_record, parsed, dns_lookup_count) ==
    IF startswith(spf_record, "v=spf1") /\ parsed.includes_all /\ dns_lookup_count <= 10
    THEN [res EXCEPT !.valid = TRUE]
    ELSE res

\* The result dict test_spf starts from.
spf_result_init(domain) ==
    [domain |-> domain, record_found |-> FALSE, record |-> None, mechanisms |-> <<>>,
     includes |-> <<>>, all_mechanism |-> None, includes_all |-> FALSE, valid |-> FALSE,
     issues |-> <<>>, recommendations |-> <<>>, score |-> 0, dns_lookups |-> 0]

\* Step k of test_spf once the record is found: the assignments and rule calls
\* of its try block, in order.
spf_step(k, res, spf_record, parsed, dns_lookup_count) ==
    CASE k = 1 -> [res EXCEPT !.mechanisms = parsed.mechanisms,
                              !.includes = parsed.includes,
                              !.all_mechanism = parsed.all_mechanism,
                              !.includes_all = parsed.includes_all]
      [] k = 2 -> score_all_mechanism(res, parsed)
      [] k = 3 -> [res EXCEPT !.dns_lookups = dns_lookup_count]
      [] k = 4 -> check_dns_lookup_limit(res, dns_lookup_count)
      [] k = 5 -> score_mechanisms(res, parsed)
      [] k = 6 -> score_trusted_includes(res, parsed.includes)
      [] k = 7 -> check_record_length(res, spf_record)
      [] k = 8 -> check_deprecated_mechanisms(res, parsed.mechanisms)
      [] k = 9 -> spf_validate_overall(res, spf_record, parsed, dns_lookup_count)

\* The results after steps k..9, started from res.
RECURSIVE spf_run(_, _, _, _, _)
spf_run(k, res, spf_record, parsed, dns_lookup_count) ==
    IF k > 9 THEN <<>>
    ELSE LET r == spf_step(k, res, spf_record, parsed, dns_lookup_count)
         IN  <<r>> \o spf_run(k + 1, r, spf_record, parsed, dns_lookup_count)

\* test_spf, as the results after each of its steps, the returned one last.
spf_steps(domain) ==
    LET txt_records == dns_lookup(domain, "TXT")
        found       == get_spf_record(txt_records)
        r1 == check_spf_record_presence(spf_result_init(domain), found[1], found[2])
    IN  IF ~r1.record_found THEN <<r1>>
        ELSE LET parsed == parse_spf_record(found[1])
             IN  <<r1>> \o spf_run(1, r1, found[1], parsed,
                                   count_dns_lookups(parsed.mechanisms))

test_spf(domain) == LET steps == spf_steps(domain) IN steps[Len(steps)]

\* The score each rule added, by rule, from the results after each step.
spf_log(steps) ==
    IF Len(steps) = 1
    THEN [presence |-> steps[1].score, all |-> 0, lookups |-> 0,
          mechanisms |-> 0, trusted |-> 0]
    ELSE [presence   |-> steps[1].score,
          all        |-> steps[3].score - steps[2].score,
          lookups    |-> steps[5].score - steps[4].score,
          mechanisms |-> steps[6].score - steps[5].score,
          trusted    |-> steps[7].score - steps[6].score]

(***************************************************************************)
(* utils.parse_dmarc_record                                                *)
(***************************************************************************)
\* str(v) of a value that is None or a string.
str(v) == IF v = None THEN "None" ELSE v

\* [uri.strip() for uri in value.split(',')]
uri_list(value) ==
    LET uris == split_on(value, ",") IN [i \in 1..Len(uris) |-> strip(uris[i])]

\* _assign_dmarc_tag keeping the first p tag instead of the last.
_assign_dmarc_tag_first_policy(policy_data, tag, value) ==
    CASE tag = "v"     -> [policy_data EXCEPT !.version = value]
      [] tag = "p"     -> [policy_data EXCEPT !.policy = IF @ = None THEN value ELSE @]
      [] tag = "sp"    -> [policy_data EXCEPT !.subdomain_policy = value]
      [] tag = "pct"   -> IF int_raises(value) THEN policy_data
                          ELSE [policy_data EXCEPT !.percentage = int(value)]
      [] tag = "rua"   -> [policy_data EXCEPT !.rua = uri_list(value)]
      [] tag = "ruf"   -> [policy_data EXCEPT !.ruf = uri_list(value)]
      [] tag = "fo"    -> [policy_data EXCEPT !.forensic_options = value]
      [] tag = "aspf"  -> [policy_data EXCEPT !.alignment_spf = value]
      [] tag = "adkim" -> [policy_data EXCEPT !.alignment_dkim = value]
      [] tag = "ri"    -> IF int_raises(value) THEN policy_data
                          ELSE [policy_data EXCEPT !.report_interval = int(value)]
      [] OTHER         -> policy_data

_assign_dmarc_tag(policy_data, tag, value) ==
    CASE tag = "v"     -> [policy_data EXCEPT !.version = value]
      [] tag = "p"     -> [policy_data EXCEPT !.policy = value]
      [] tag = "sp"    -> [policy_data EXCEPT !.subdomain_policy = value]
      [] tag = "pct"   -> IF int_raises(value) THEN policy_data
                          ELSE [policy_data EXCEPT !.percentage = int(value)]
      [] tag = "rua"   -> [policy_data EXCEPT !.rua = uri_list(value)]
      [] tag = "ruf"   -> [policy_data EXCEPT !.ruf = uri_list(value)]
      [] tag = "fo"    -> [policy_data EXCEPT !.forensic_options = value]
      [] tag = "aspf"  -> [policy_data EXCEPT !.alignment_spf = value]
      [] tag = "adkim" -> [policy_data EXCEPT !.alignment_dkim = value]
      [] tag = "ri"    -> IF int_raises(value) THEN policy_data
                          ELSE [policy_data EXCEPT !.report_interval = int(value)]
      [] OTHER         -> policy_data

dmarc_policy_data_init ==
    [version |-> None, policy |-> None, subdomain_policy |-> None, percentage |-> 100,
     rua |-> <<>>, ruf |-> <<>>, forensic_options |-> None, alignment_spf |-> "r",
     alignment_dkim |-> "r", report_interval |-> 86400]

\* One turn of the loop over the pairs.
parse_dmarc_pair(policy_data, raw) ==
    LET pair == strip(raw)
    IN  IF ~contains(pair, "=") THEN policy_data
        ELSE LET tv == split_eq(pair)
             IN  _assign_dmarc_tag(policy_data, lower(strip(tv[1])), strip(tv[2]))

RECURSIVE parse_dmarc_pairs(_, _)
parse_dmarc_pairs(policy_data, pairs) ==
    IF pairs = <<>> THEN policy_data
    ELSE parse_dmarc_pairs(parse_dmarc_pair(policy_data, Head(pairs)), Tail(pairs))

parse_dmarc_record(dmarc_record) ==
    parse_dmarc_pairs(dmarc_policy_data_init, split_on(dmarc_record, ";"))

(***************************************************************************)
(* dmarc_test.py                                                           *)
(***************************************************************************)
\* get_dmarc_record: the first answer starting with v=DMARC1, None if none.
RECURSIVE first_dmarc_record(_)
first_dmarc_record(dmarc_records) ==
    IF dmarc_records = <<>> THEN None
    ELSE IF startswith(Head(dmarc_records), "v=DMARC1") THEN Head(dmarc_records)
    ELSE first_dmarc_record(Tail(dmarc_records))

get_dmarc_record(domain) == first_dmarc_record(dns_lookup("_dmarc." \o domain, "TXT"))

\* handle_no_dmarc_record recording the issue without any recommendation.
handle_no_dmarc_record_bare(res, domain) ==
    [res EXCEPT !.issues = Append(@, "No DMARC record found")]

handle_no_dmarc_record(res, domain) ==
    [res EXCEPT
       !.issues = Append(@, "No DMARC record found"),
       !.recommendations = @ \o
         <<"Create a DMARC record at _dmarc." \o domain,
           "Start with a policy of \"none\" for monitoring",
           "Configure reporting addresses (rua/ruf)",
           "Gradually move to \"quarantine\" then \"reject\" policy">>]

validate_version(parsed, res) ==
    IF parsed.version # "DMARC1"
    THEN [res EXCEPT !.issues = Append(@, "Invalid DMARC version: " \o str(parsed.version))]
    ELSE [res EXCEPT !.score = @ + 20]

score_policy(parsed, res) ==
    LET r == [res EXCEPT !.policy = parsed.policy]
    IN  IF ~Truthy(parsed.policy)
        THEN [r EXCEPT !.issues = Append(@, "Missing policy (p) tag")]
        ELSE IF parsed.policy = "none"
        THEN [r EXCEPT
                !.score = @ + 10,
                !.recommendations =
                    Append(@, "Consider upgrading policy to \"quarantine\" or \"reject\"")]
        ELSE IF parsed.policy = "quarantine"
        THEN [r EXCEPT
                !.score = @ + 25,
                !.recommendations =
                    Append(@, "Consider upgrading policy to \"reject\" for maximum protection")]
        ELSE IF parsed.policy = "reject"
        THEN [r EXCEPT !.score = @ + 40]
        ELSE [r EXCEPT !.issues = Append(@, "Invalid policy value: " \o parsed.policy)]

score_subdomain_policy(parsed, res) ==
    [res EXCEPT !.subdomain_policy = parsed.subdomain_policy,
                !.score = IF Truthy(parsed.subdomain_policy) THEN @ + 5 ELSE @]

score_percentage(parsed, res) ==
    LET r == [res EXCEPT !.percentage = parsed.percentage]
    IN  IF parsed.percentage = 100
        THEN [r EXCEPT !.score = @ + 15]
        ELSE IF parsed.percentage > 0
        THEN [r EXCEPT
                !.score = @ + 10,
                !.recommendations =
                    Append(@, "Consider increasing percentage to 100% for full coverage")]
        ELSE [r EXCEPT !.issues = Append(@, "Percentage set to 0%")]

check_reporting_addresses(parsed, res) ==
    LET r0 == [res EXCEPT !.rua_addresses = parsed.rua, !.ruf_addresses = parsed.ruf]
        r1 == IF parsed.rua # <<>>
              THEN [r0 EXCEPT !.score = @ + 10]
              ELSE [r0 EXCEPT !.recommendations =
                        Append(@, "Add aggregate reporting address (rua)")]
    IN  IF parsed.ruf # <<>>
        THEN [r1 EXCEPT !.score = @ + 5]
        ELSE [r1 EXCEPT !.recommendations =
                  Append(@, "Consider adding forensic reporting address (ruf)")]

check_alignment(parsed, res) ==
    [res EXCEPT !.alignment_spf = parsed.alignment_spf,
                !.alignment_dkim = parsed.alignment_dkim,
                !.score = @ + (IF parsed.alignment_spf = "s" THEN 5 ELSE 0)
                            + (IF parsed.alignment_dkim = "s" THEN 5 ELSE 0)]

dmarc_validate_overall(parsed, res) ==
    IF /\ parsed.version = "DMARC1"
       /\ parsed.policy \in {"none", "quarantine", "reject"}
       /\ parsed.percentage > 0
    THEN [res EXCEPT !.valid = TRUE]
    ELSE res

\* add_policy_recommendations appending to the issues instead.
add_policy_recommendations_as_issue(parsed, res) ==
    IF parsed.policy \in {"quarantine", "reject"} /\ parsed.rua = <<>>
    THEN [res EXCEPT !.issues =
              Append(@, "Reporting addresses are crucial for quarantine/reject policies")]
    ELSE res

add_policy_recommendations(parsed, res) ==
    IF parsed.policy \in {"quarantine", "reject"} /\ parsed.rua = <<>>
    THEN [res EXCEPT !.recommendations =
              Append(@, "Reporting addresses are crucial for quarantine/reject policies")]
    ELSE res

\* Step k of score_dmarc: its rule calls, in order.
dmarc_step(k, parsed, res) ==
    CASE k = 1 -> validate_version(parsed, res)
      [] k = 2 -> score_policy(parsed, res)
      [] k = 3 -> score_subdomain_policy(parsed, res)
      [] k = 4 -> score_percentage(parsed, res)
      [] k = 5 -> check_reporting_addresses(parsed, res)
      [] k = 6 -> check_alignment(parsed, res)
      [] k = 7 -> dmarc_validate_overall(parsed, res)
      [] k = 8 -> add_policy_recommendations(parsed, res)

\* score_dmarc from step k on, as the results after each step.
RECURSIVE score_dmarc_from(_, _, _)
score_dmarc_from(k, parsed, res) ==
    IF k > 8 THEN <<>>
    ELSE LET r == dmarc_step(k, parsed, res)
         IN  <<r>> \o score_dmarc_from(k + 1, parsed, r)

\* The result dict test_dmarc starts from.
dmarc_result_init(domain) ==
    [domain |-> domain, record_found |-> FALSE, record |-> None, policy |-> None,
     subdomain_policy |-> None, percentage |-> 0, rua_addresses |-> <<>>,
     ruf_addresses |-> <<>>, alignment_spf |-> None, alignment_dkim |-> None,
     valid |-> FALSE, issues |-> <<>>, recommendations |-> <<>>, score |-> 0]

\* test_dmarc, as the results after each of its steps, the returned one last.
dmarc_steps(domain) ==
    LET dmarc_record == get_dmarc_record(domain)
    IN  IF ~Truthy(dmarc_record)
        THEN <<handle_no_dmarc_record(dmarc_result_init(domain), domain)>>
        ELSE LET r0 == [dmarc_result_init(domain) EXCEPT !.record_found = TRUE,
                                                         !.record = dmarc_record]
             IN  <<r0>> \o score_dmarc_from(1, parse_dmarc_record(dmarc_record), r0)

test_dmarc(domain) == LET steps == dmarc_steps(domain) IN steps[Len(steps)]

\* The score each rule added, by rule, from the results after each step.
dmarc_log(steps) ==
    IF Len(steps) = 1
    THEN [version |-> 0, policy |-> 0, subdomain |-> 0, percentage |-> 0,
          reporting |-> 0, alignment |-> 0]
    ELSE [version    |-> steps[2].score - steps[1].score,
          policy     |-> steps[3].score - steps[2].score,
          subdomain  |-> steps[4].score - steps[3].score,
          percentage |-> steps[5].score - steps[4].score,
          reporting  |-> steps[6].score - steps[5].score,
          alignment  |-> steps[7].score - steps[6].score]

(***************************************************************************)
(* base64.b64decode as dkim_test.py calls it (not strict): the decoder     *)
(* skips every character outside the alphabet, stops at the padding that   *)
(* completes a quad, and raises when the data characters left over do not  *)
(* fill a quad.  Only the length of the decoded bytes is used by the code. *)
(***************************************************************************)
Base64Alphabet == Range(Upper) \cup Range(Lower) \cup Range(Digits) \cup {"+", "/"}

\* Number of alphabet characters among the first i characters of s.
DataChars(s, i) == Cardinality({k \in 1..i : Char(s, k) \in Base64Alphabet})

\* Bytes the decoder has written after n data characters.
DecodedBytes(n) ==
    (n \div 4) * 3 + (IF n % 4 = 2 THEN 1 ELSE IF n % 4 = 3 THEN 2 ELSE 0)

\* Number of "=" among s[1..i] since the last data character.
PadsAt(s, i) ==
    LET last == IF \E k \in 1..i : Char(s, k) \in Base64Alphabet
                THEN CHOOSE k \in 1..i :
                        /\ Char(s, k) \in Base64Alphabet
                        /\ \A m \in (k + 1)..i : Char(s, m) \notin Base64Alphabet
                ELSE 0
    IN  Cardinality({k \in (last + 1)..i : Char(s, k) = "="})

\* The decoder stops at the "=" at index i: the quad holds at least two data
\* characters and this padding completes it.
PadStops(s, i) ==
    /\ Char(s, i) = "="
    /\ LET quad_pos == DataChars(s, i) % 4
       IN  quad_pos >= 2 /\ quad_pos + PadsAt(s, i) >= 4

\* Stands for binascii.Error in place of a length.
BinasciiError == -1

\* len(base64.b64decode(s)), or BinasciiError when b64decode raises.
b64decode_len(s) ==
    IF \E i \in 1..Len(s) : PadStops(s, i)
    THEN LET stop == CHOOSE i \in 1..Len(s) :
                        PadStops(s, i) /\ \A m \in 1..(i - 1) : ~PadStops(s, m)
         IN  DecodedBytes(DataChars(s, stop))
    ELSE LET n == DataChars(s, Len(s))
         IN  IF n % 4 # 0 THEN BinasciiError ELSE DecodedBytes(n)

(***************************************************************************)
(* dkim_test.py                                                            *)
(***************************************************************************)
common_selectors ==
    <<"default", "selector1", "selector2", "google", "gmail", "mail", "email",
      "dkim", "k1", "s1", "s2", "mxvault", "mailo", "mailgun", "sendgrid",
      "mandrill", "amazonses">>

\* A dict without keys.
EmptyDict == <<>>

\* d[key] = value
SetItem(d, key, value) == (key :> value) @@ d

\* init_dkim_result handing out the lists and dicts of the previous call's result.
init_dkim_result_shared(domain) ==
    IF returned = <<>>
    THEN [domain |-> domain, selectors_found |-> <<>>, selectors_tested |-> <<>>,
          valid_selectors |-> <<>>, invalid_selectors |-> <<>>, public_keys |-> EmptyDict,
          key_algorithms |-> EmptyDict, key_sizes |-> EmptyDict, issues |-> <<>>,
          recommendations |-> <<>>, score |-> 0]
    ELSE [result EXCEPT !.domain = domain, !.score = 0]

init_dkim_result(domain) ==
    [domain |-> domain, selectors_found |-> <<>>, selectors_tested |-> <<>>,
     valid_selectors |-> <<>>, invalid_selectors |-> <<>>, public_keys |-> EmptyDict,
     key_algorithms |-> EmptyDict, key_sizes |-> EmptyDict, issues |-> <<>>,
     recommendations |-> <<>>, score |-> 0]

dkim_parsed_init ==
    [version |-> None, algorithm |-> "rsa", public_key |-> None, key_type |-> "rsa",
     hash_algorithms |-> <<"sha256">>, service_type |-> <<"email">>, flags |-> <<>>]

\* One turn of parse_dkim_record's loop matching the tag as written, not lower-cased.
parse_dkim_pair_as_written(parsed, pair) ==
    IF ~contains(pair, "=") THEN parsed
    ELSE LET tv    == split_eq(pair)
             tag   == strip(tv[1])
             value == strip(tv[2])
         IN  CASE tag = "v" -> [parsed EXCEPT !.version = value]
               [] tag = "k" -> [parsed EXCEPT !.key_type = value, !.algorithm = value]
               [] tag = "p" -> [parsed EXCEPT !.public_key = value]
               [] tag = "h" -> [parsed EXCEPT !.hash_algorithms = split_on(value, ":")]
               [] tag = "s" -> [parsed EXCEPT !.service_type = split_on(value, ":")]
               [] tag = "t" -> [parsed EXCEPT !.flags = split_on(value, ":")]
               [] OTHER     -> parsed

\* One turn of parse_dkim_record's loop over the pairs.
parse_dkim_pair(parsed, pair) ==
    IF ~contains(pair, "=") THEN parsed
    ELSE LET tv    == split_eq(pair)
             tag   == lower(strip(tv[1]))
             value == strip(tv[2])
         IN  CASE tag = "v" -> [parsed EXCEPT !.version = value]
               [] tag = "k" -> [parsed EXCEPT !.key_type = value, !.algorithm = value]
               [] tag = "p" -> [parsed EXCEPT !.public_key = value]
               [] tag = "h" -> [parsed EXCEPT !.hash_algorithms = split_on(value, ":")]
               [] tag = "s" -> [parsed EXCEPT !.service_type = split_on(value, ":")]
               [] tag = "t" -> [parsed EXCEPT !.flags = split_on(value, ":")]
               [] OTHER     -> parsed

RECURSIVE parse_dkim_pairs(_, _, _)
parse_dkim_pairs(parsed, pairs, i) ==
    IF i > Len(pairs) THEN parsed
    ELSE parse_dkim_pairs(parse_dkim_pair(parsed, pairs[i]), pairs, i + 1)

parse_dkim_record(dkim_record) ==
    parse_dkim_pairs(dkim_parsed_init, split_on(remove_chars(dkim_record, {" "}), ";"), 1)

\* Fewer decoded bytes than this and validate_dkim_key rejects the key.
MinKeyBytes == 50

validate_dkim_key(public_key_b64) ==
    IF ~Truthy(public_key_b64) THEN FALSE
    ELSE LET der_size == b64decode_len(remove_chars(public_key_b64, Whitespace))
         IN  der_size # BinasciiError /\ der_size >= MinKeyBytes

\* get_rsa_key_size with the band limits counted into the upper band.
get_rsa_key_size_inclusive(public_key_b64) ==
    LET der_size == b64decode_len(remove_chars(public_key_b64, Whitespace))
    IN  IF der_size = BinasciiError THEN 0
        ELSE IF der_size >= 400 THEN 4096
        ELSE IF der_size >= 250 THEN 2048
        ELSE IF der_size >= 150 THEN 1024
        ELSE 512

get_rsa_key_size(public_key_b64) ==
    LET der_size == b64decode_len(remove_chars(public_key_b64, Whitespace))
    IN  IF der_size = BinasciiError THEN 0
        ELSE IF der_size > 400 THEN 4096
        ELSE IF der_size > 250 THEN 2048
        ELSE IF der_size > 150 THEN 1024
        ELSE 512

handle_key_size_and_score(selector, parsed, res) ==
    IF parsed.algorithm # "rsa" THEN res
    ELSE LET key_size == get_rsa_key_size(parsed.public_key)
             sized    == [res EXCEPT !.key_sizes = SetItem(@, selector, key_size)]
         IN  IF key_size >= 2048 THEN [sized EXCEPT !.score = @ + 10]
             ELSE IF key_size >= 1024
             THEN [sized EXCEPT !.score = @ + 5,
                     !.recommendations = Append(@,
                         "Consider upgrading " \o selector \o " key to 2048+ bits")]
             ELSE [sized EXCEPT !.issues = Append(@,
                         "Weak key size for " \o selector \o ": "
                             \o ToString(key_size) \o " bits")]

\* The body of process_selectors' loop for one selector, from the answer of its
\* lookup on: st holds the result and the local valid_count.
probe_selector(st, selector, dkim_records) ==
    LET tested == [st EXCEPT !.result.selectors_tested = Append(@, selector)]
    IN  IF dkim_records = <<>> THEN tested
        ELSE
        LET dkim_record == join("", dkim_records)
        IN  IF dkim_record = "" \/ ~contains(dkim_record, "p=") THEN tested
            ELSE
            LET found  == [tested EXCEPT !.result.selectors_found = Append(@, selector)]
                parsed == parse_dkim_record(dkim_record)
            IN  IF ~Truthy(parsed.public_key) THEN found
                ELSE
                LET key   == parsed.public_key
                    keyed == [found EXCEPT
                                !.result.public_keys =
                                    SetItem(@, selector,
                                        SubSeq(key, 1, IF Len(key) < 50 THEN Len(key) ELSE 50)
                                            \o "..."),
                                !.result.key_algorithms =
                                    SetItem(@, selector, parsed.algorithm)]
                IN  IF validate_dkim_key(key)
                    THEN [result |->
                              handle_key_size_and_score(selector, parsed,
                                  [keyed.result EXCEPT
                                      !.valid_selectors = Append(@, selector)]),
                          valid_count |-> keyed.valid_count + 1]
                    ELSE [keyed EXCEPT
                            !.result.invalid_selectors = Append(@, selector),
                            !.result.issues = Append(@,
                                "Invalid public key for selector: " \o selector)]

dkim_domain(selector, domain) == selector \o "._domainkey." \o domain

\* One turn of process_selectors' loop counting every selector with a record.
process_selector_counting_found(st, domain, selector) ==
    LET after == probe_selector(st, selector,
                                dns_lookup(dkim_domain(selector, domain), "TXT"))
    IN  [after EXCEPT !.valid_count =
            st.valid_count
                + (IF Contains(after.result.selectors_found, selector) THEN 1 ELSE 0)]

\* One turn of process_selectors' loop.
process_selector(st, domain, selector) ==
    probe_selector(st, selector, dns_lookup(dkim_domain(selector, domain), "TXT"))

\* The for statement leaving the loop at the first selector without a usable record.
next_selector_fail_fast(i, st) ==
    IF Contains(st.result.selectors_found, common_selectors[i]) THEN i + 1
    ELSE Len(common_selectors) + 1

\* The for statement of process_selectors: after the turn for selector i, whether
\* it ended by continue or ran through, the turn for selector i + 1 follows.
next_selector(i, st) == i + 1

\* apply_scoring_and_recommendations giving the bonus of 5 for "google" and for
\* "gmail" separately.
apply_scoring_and_recommendations_per_esp(res, count) ==
    IF count = 0
    THEN [res EXCEPT
            !.issues = Append(@, "No valid DKIM selectors found"),
            !.recommendations = @ \o
                <<"Implement DKIM signing for outbound emails",
                  "Configure DKIM records with appropriate selectors",
                  "Use at least 2048-bit RSA keys for security",
                  "Test common selectors: default, google, mail">>]
    ELSE LET r1 == [res EXCEPT !.score = @ + 50 + (count * 10)]
             r2 == IF count = 1
                   THEN [r1 EXCEPT !.recommendations = Append(@,
                            "Consider implementing multiple DKIM selectors for redundancy")]
                   ELSE r1
             r3 == [r2 EXCEPT !.score = @
                        + (IF Contains(r2.valid_selectors, "google") THEN 5 ELSE 0)
                        + (IF Contains(r2.valid_selectors, "gmail") THEN 5 ELSE 0)]
         IN  IF count >= 2
             THEN [r3 EXCEPT !.score = @ + 10,
                     !.recommendations = Append(@,
                        "Good: Multiple selectors configured for key rotation")]
             ELSE r3

apply_scoring_and_recommendations(res, count) ==
    IF count = 0
    THEN [res EXCEPT
            !.issues = Append(@, "No valid DKIM selectors found"),
            !.recommendations = @ \o
                <<"Implement DKIM signing for outbound emails",
                  "Configure DKIM records with appropriate selectors",
                  "Use at least 2048-bit RSA keys for security",
                  "Test common selectors: default, google, mail">>]
    ELSE LET r1 == [res EXCEPT !.score = @ + 50 + (count * 10)]
             r2 == IF count = 1
                   THEN [r1 EXCEPT !.recommendations = Append(@,
                            "Consider implementing multiple DKIM selectors for redundancy")]
                   ELSE r1
             r3 == IF Contains(r2.valid_selectors, "google")
                      \/ Contains(r2.valid_selectors, "gmail")
                   THEN [r2 EXCEPT !.score = @ + 5]
                   ELSE r2
         IN  IF count >= 2
             THEN [r3 EXCEPT !.score = @ + 10,
                     !.recommendations = Append(@,
                        "Good: Multiple selectors configured for key rotation")]
             ELSE r3

\* The score apply_scoring_and_recommendations added, and the score before it.
dkim_log(before, after) == [keys |-> before.score, aggregate |-> after.score - before.score]

(***************************************************************************)
(* utils.validate_domain                                                   *)
(***************************************************************************)
AlphaNumeric == Range(Upper) \cup Range(Lower) \cup Range(Digits)

\* One label of the domain pattern: [a-zA-Z0-9]([a-zA-Z0-9-]{0,61}[a-zA-Z0-9])?
label_matches(label) ==
    /\ Len(label) \in 1..63
    /\ Char(label, 1) \in AlphaNumeric
    /\ Char(label, Len(label)) \in AlphaNumeric
    /\ \A k \in 2..(Len(label) - 1) : Char(label, k) \in AlphaNumeric \cup {"-"}

\* domain_pattern.match(domain): labels joined by dots, from the start of the
\* string to its end ("$" also matches before one final newline).
domain_pattern_match(domain) ==
    LET body   == IF Len(domain) > 0 /\ Char(domain, Len(domain)) = "\n"
                  THEN SubSeq(domain, 1, Len(domain) - 1)
                  ELSE domain
        labels == split_on(body, ".")
    IN  \A i \in DOMAIN labels : label_matches(labels[i])

validate_domain(domain) ==
    IF domain = "" \/ Len(domain) > 253 THEN FALSE ELSE domain_pattern_match(domain)

(***************************************************************************)
(* test_runner.py                                                          *)
(***************************************************************************)
script_map ==
    [dmarc |-> "dmarc_test.py", spf |-> "spf_test.py", dkim |-> "dkim_test.py",
     mail_echo |-> "mail_echo_test.py"]

test_types == <<"dmarc", "spf", "dkim", "mail_echo">>

\* An exception leaving a function instead of a return value.
Raised(type, message) == [raised |-> type, message |-> message]

IsRaised(v) == "raised" \in DOMAIN v

\* The error dict run_single_test returns.
runner_error(test_type, domain, message) ==
    [test_type |-> test_type, domain |-> domain, error |-> TRUE, message |-> message,
     result |-> EmptyDict]

\* run_single_test, given what subprocess.run of the script does: child is
\* [outcome |-> "timeout"] or [outcome |-> "exit", returncode, stdout, stderr],
\* stdout being [json |-> "object", value |-> the dict], [json |-> "array"] or
\* [json |-> "none"] (no JSON document).
run_single_test(test_type, domain, child) ==
    IF test_type \notin DOMAIN script_map
    THEN Raised("ValueError", "Unknown test type: " \o test_type)
    ELSE IF child.outcome = "timeout"
    THEN runner_error(test_type, domain, "Test timed out after 60 seconds")
    ELSE IF child.returncode # 0
    THEN runner_error(test_type, domain, "Test failed: " \o child.stderr)
    ELSE IF child.stdout.json = "none"
    THEN runner_error(test_type, domain,
            "Failed to parse test output: Expecting value: line 1 column 1 (char 0)")
    ELSE IF child.stdout.json = "array"
    THEN runner_error(test_type, domain,
            "Test execution failed: list indices must be integers or slices, not str")
    ELSE SetItem(SetItem(child.stdout.value, "test_type", test_type), "domain", domain)

\* not result.get('error', False) and 'score' in result
counts_for_score(r) ==
    /\ ~("error" \in DOMAIN r /\ r.error)
    /\ "score" \in DOMAIN r

RECURSIVE total_score(_, _)
total_score(res, types) ==
    IF types = {} THEN 0
    ELSE LET t == CHOOSE t \in types : TRUE
         IN  (IF counts_for_score(res[t]) THEN res[t].score ELSE 0)
                + total_score(res, types \ {t})

\* round(total / count, 1) in tenths: the nearest tenth, the even one on a tie
\* (the ties here are quarters, which floats hold exactly).
round_tenths(total, count) ==
    LET q == (10 * total) \div count
        r == (10 * total) % count
    IN  IF 2 * r > count \/ (2 * r = count /\ q % 2 = 1) THEN q + 1 ELSE q

\* run_all_tests after its loop, dividing the total by the number of tests run
\* instead of the number of tests that have a score.
run_all_summary_over_all(domain, res, execution_time) ==
    LET valid_tests == Cardinality({t \in DOMAIN res : counts_for_score(res[t])})
    IN  [domain         |-> domain,
         execution_time |-> execution_time,
         overall_score  |-> IF valid_tests > 0
                            THEN round_tenths(total_score(res, DOMAIN res), Len(test_types))
                            ELSE 0,
         tests          |-> res,
         summary        |-> [total_tests      |-> Len(test_types),
                             successful_tests |-> valid_tests,
                             failed_tests     |-> Len(test_types) - valid_tests]]

\* run_all_tests after its loop: the summary dict (overall_score in tenths,
\* execution_time in hundredths of a second).
run_all_summary(domain, res, execution_time) ==
    LET valid_tests == Cardinality({t \in DOMAIN res : counts_for_score(res[t])})
    IN  [domain         |-> domain,
         execution_time |-> execution_time,
         overall_score  |-> IF valid_tests > 0
                            THEN round_tenths(total_score(res, DOMAIN res), valid_tests)
                            ELSE 0,
         tests          |-> res,
         summary        |-> [total_tests      |-> Len(test_types),
                             successful_tests |-> valid_tests,
                             failed_tests     |-> Len(test_types) - valid_tests]]

(***************************************************************************)
(* The processes: one script run on one command line against one zone.     *)
(***************************************************************************)
Domain == "example.com"

script == argv[1]

\* get_domain_from_args: sys.argv[1].strip().lower()
get_domain_from_args == lower(strip(argv[2]))

\* The log before any call.
NoLog == [calls |-> 0]

\* The state before the process has run anything, for a command line and a zone.
Start(cmd, zone) ==
    /\ argv = cmd
    /\ dns = zone
    /\ pc = "start"
    /\ result = None
    /\ log = NoLog
    /\ sel = 0
    /\ valid_count = 0
    /\ results = EmptyDict
    /\ stdout = <<>>
    /\ returned = <<>>

Answer(records) ==
    [rcode |-> "NOERROR", answers |-> [i \in 1..Len(records) |-> "\"" \o records[i] \o "\""]]

Timeout == [rcode |-> "TIMEOUT", answers |-> <<>>]

\* A TXT record of the apex that is no SPF record.
OtherTxt == "google-site-verification=abc"

(***************************************************************************)
(* The SPF records of the model: v=spf1, then one mechanism repeated up to *)
(* MaxFill times, then up to MaxTail mechanisms; and a few odd ones.       *)
(***************************************************************************)
SpfFillers == {"ip4:10.0.0.1", "include:spf.protection.outlook.com"}

SpfTailTokens == {"-all", "~all", "+all", "mx", "exists:e.x"}

SpfRecords ==
    {join(" ", <<"v=spf1">> \o [i \in 1..n |-> f] \o tail) :
        f \in SpfFillers, n \in 0..MaxFill, tail \in SeqsUpTo(SpfTailTokens, MaxTail)}

SpfOddRecords ==
    {"v=spf1  mx\t-all ", "v=spf1-all", "v=spf10 include:x.io redirect=y.io -all",
     "v=spf1 all", "v=spf1 -ALL", "v=spf1 include:_spf.google.com ~all",
     "v=spf1 a ?all", "v=spf1 mx ptr -all", "v=spf1 ptr:x.io +all", "v=spf1 -all ?all", "v=spf1 a:mail.example.com ip6:::1 ?all -all",
     "v=spf1 ip6:::1 ip6:::1 ip6:::1 ip6:::1 ip6:::1 ip6:::1 ip6:::1 ip6:::1 ip6:::1 ip6:::1 ip6:::1 -all"}

SpfFewRecords == {"v=spf1 -all", "v=spf1 mx ~all", "v=spf1 ptr"}

SpfZones ==
    {Answer(<<r>>) : r \in SpfRecords \cup SpfOddRecords}
    \cup {Answer(<<OtherTxt, r>>) : r \in SpfFewRecords}
    \cup {Answer(<<r1, OtherTxt, r2>>) : r1 \in SpfFewRecords, r2 \in SpfFewRecords}
    \cup {Answer(<<>>), Answer(<<OtherTxt>>), NxDomain, Timeout}

InitSPF ==
    \/ \E zone \in SpfZones :
         Start(<<"spf_test.py", Domain>>, [n \in {Domain} |-> zone])
    \/ \E cmd \in {<<"spf_test.py">>, <<"spf_test.py", Domain, "x">>} :
         Start(cmd, [n \in {Domain} |-> NxDomain])

\* get_domain_from_args on a command line without exactly one argument:
\* handle_error prints the usage error and exits with status 1.
UsageError ==
    /\ pc = "start"
    /\ script \in {"spf_test.py", "dmarc_test.py", "dkim_test.py"}
    /\ Len(argv) # 2
    /\ stdout' = Append(stdout, error_result("Usage: python script.py <domain>", ""))
    /\ pc' = "exit1"
    /\ UNCHANGED <<dns, argv, result, log, sel, valid_count, results, returned>>

\* A call of test_spf(domain): main's, or a further one on the same answers.
SpfCall ==
    /\ script = "spf_test.py"
    /\ Len(argv) = 2
    /\ pc \in {"start", "returned"}
    /\ Len(returned) < MaxCalls
    /\ LET steps == spf_steps(get_domain_from_args)
       IN  /\ result' = steps[Len(steps)]
           /\ log' = spf_log(steps)
    /\ returned' = Append(returned, result')
    /\ pc' = "returned"
    /\ UNCHANGED <<dns, argv, sel, valid_count, results, stdout>>

\* main: output_result(result), and the process ends with status 0.
Output ==
    /\ pc = "returned"
    /\ stdout' = Append(stdout, result)
    /\ pc' = "exit0"
    /\ UNCHANGED <<dns, argv, result, log, sel, valid_count, results, returned>>

NextSPF == UsageError \/ SpfCall \/ Output

SpecSPF == InitSPF /\ [][NextSPF]_vars

(***************************************************************************)
(* The DMARC records of the model: v=DMARC1, then up to MaxTags common     *)
(* tags; the reference tags p=reject, pct=100, rua=mailto:x@y.com in every *)
(* order with up to MaxExtra further segments before or after them; odd ones.*)
(***************************************************************************)
DmarcTags ==
    {"p=reject", "p=none", "p=quarantine", "pct=100", "pct=50", "rua=mailto:x@y.com"}

DmarcExtras ==
    DmarcTags \cup
    {"pct=0", "ruf=mailto:f@y.com", "sp=reject", "aspf=s", "adkim=s", "junk",
     "v=DMARC2", "pct=abc", "pct=150", "pct=-5", "rua=", " P = none ", "", "fo=1"}

ReferenceTags == {"p=reject", "pct=100", "rua=mailto:x@y.com"}

ReferenceOrders == {o \in [1..3 -> ReferenceTags] : Range(o) = ReferenceTags}

DmarcRecords ==
    {join("; ", <<"v=DMARC1">> \o tags) : tags \in SeqsUpTo(DmarcTags, MaxTags)}
    \cup {join("; ", <<"v=DMARC1">> \o SubSeq(o, 1, k) \o extra \o SubSeq(o, k + 1, 3)) :
            o \in ReferenceOrders, k \in {0, 3}, extra \in SeqsUpTo(DmarcExtras, MaxExtra)}

DmarcOddRecords ==
    {"v=DMARC1x; p=reject; pct=100; rua=mailto:x@y.com",
     "v=DMARC1 p=reject; pct=100; rua=mailto:x@y.com",
     "v=DMARC1;p=reject;pct=100;rua=mailto:x@y.com;",
     "v=DMARC1; P=REJECT; PCT= 100 ; RUA = mailto:a@y.com , mailto:b@y.com",
     "v=DMARC1; p=quarantine; sp=none; adkim=s; aspf=s; ruf=mailto:f@y.com",
     "v=DMARC1; p=none; pct=0; ruf=mailto:f@y.com",
     "v=DMARC1; p=reject; ri=3600; pct=100; fo=1; rua=mailto:x@y.com",
     "v=DMARC1"}

DmarcFewRecords == {"v=DMARC1; p=none", "v=DMARC1; p=reject; rua=mailto:x@y.com"}

DmarcZones ==
    {Answer(<<r>>) : r \in DmarcRecords \cup DmarcOddRecords}
    \cup {Answer(<<OtherTxt, r>>) : r \in DmarcFewRecords}
    \cup {Answer(<<r1, r2>>) : r1 \in DmarcFewRecords, r2 \in DmarcFewRecords}
    \cup {Answer(<<>>), Answer(<<OtherTxt>>), Answer(<<" v=DMARC1; p=none">>),
          NxDomain, Timeout}

InitDMARC ==
    \/ \E zone \in DmarcZones :
         Start(<<"dmarc_test.py", Domain>>, [n \in {"_dmarc." \o Domain} |-> zone])
    \/ \E cmd \in {<<"dmarc_test.py">>, <<"dmarc_test.py", Domain, "x">>} :
         Start(cmd, [n \in {"_dmarc." \o Domain} |-> NxDomain])

\* A call of test_dmarc(domain): main's, or a further one on the same answers.
DmarcCall ==
    /\ script = "dmarc_test.py"
    /\ Len(argv) = 2
    /\ pc \in {"start", "returned"}
    /\ Len(returned) < MaxCalls
    /\ LET steps == dmarc_steps(get_domain_from_args)
       IN  /\ result' = steps[Len(steps)]
           /\ log' = dmarc_log(steps)
    /\ returned' = Append(returned, result')
    /\ pc' = "returned"
    /\ UNCHANGED <<dns, argv, sel, valid_count, results, stdout>>

NextDMARC == UsageError \/ DmarcCall \/ Output

SpecDMARC == InitDMARC /\ [][NextDMARC]_vars

(***************************************************************************)
(* The DKIM zones of the model: up to MaxPublished of three candidate      *)
(* selectors answer with one of the common answers, or one of them answers *)
(* with any of the answers; every other selector does not exist.           *)
(***************************************************************************)
\* A base64 text that decodes to n bytes.
KeyOfBytes(n) ==
    Rep("QUJD", n \div 3)
        \o (IF n % 3 = 1 THEN "QQ==" ELSE IF n % 3 = 2 THEN "QUI=" ELSE "")

DkimPublishable == {"default", "google", "gmail"}

DkimCommonTxt ==
    {"v=DKIM1; k=rsa; p=" \o KeyOfBytes(MinKeyBytes),
     "v=DKIM1; k=rsa; p=" \o KeyOfBytes(MinKeyBytes - 1),
     "v=DKIM1; k=rsa; p=" \o KeyOfBytes(251),
     "v=DKIM1; k=rsa; p=",
     "v=DKIM1; k=rsa"}

DkimTxt ==
    DkimCommonTxt \cup
    {"v=DKIM1; k=rsa; p=" \o KeyOfBytes(n) : n \in {150, 151, 250, 400, 401}}
    \cup
    {"v=DKIM1; k=rsa; p=" \o KeyOfBytes(30) \o "\" \"" \o KeyOfBytes(21),
     "v=DKIM1; k=rsa; p=QUJ",
     "v=DKIM1; k=ed25519; p=" \o KeyOfBytes(32),
     "v=DKIM1; k=ed25519; p=" \o KeyOfBytes(64),
     "v=DKIM1; p=" \o KeyOfBytes(160),
     "v=DKIM1; sp=x"}

DkimCommonAnswers == {Answer(<<t>>) : t \in DkimCommonTxt} \cup {Timeout}

DkimAnswers == {Answer(<<t>>) : t \in DkimTxt} \cup {Timeout}

DkimZones ==
    UNION {[{dkim_domain(s, Domain) : s \in S} -> DkimCommonAnswers] :
            S \in {T \in SUBSET DkimPublishable : Cardinality(T) <= MaxPublished}}
    \cup UNION {[{dkim_domain(s, Domain)} -> DkimAnswers] : s \in DkimPublishable}

InitDKIM ==
    \/ \E zone \in DkimZones : Start(<<"dkim_test.py", Domain>>, zone)
    \/ \E cmd \in {<<"dkim_test.py">>, <<"dkim_test.py", Domain, "x">>} :
         Start(cmd, EmptyDict)

\* test_dkim(domain) up to the loop: main's call, or a further one on the same
\* answers.
DkimBegin ==
    /\ script = "dkim_test.py"
    /\ Len(argv) = 2
    /\ pc \in {"start", "returned"}
    /\ Len(returned) < MaxCalls
    /\ result' = init_dkim_result(get_domain_from_args)
    /\ valid_count' = 0
    /\ sel' = 1
    /\ pc' = "dkim_loop"
    /\ UNCHANGED <<dns, argv, log, results, stdout, returned>>

\* One turn of process_selectors' loop.
DkimProbe ==
    /\ pc = "dkim_loop"
    /\ sel <= Len(common_selectors)
    /\ LET st == process_selector([result |-> result, valid_count |-> valid_count],
                                  result.domain, common_selectors[sel])
       IN  /\ result' = st.result
           /\ valid_count' = st.valid_count
           /\ sel' = next_selector(sel, st)
    /\ UNCHANGED <<dns, argv, pc, log, results, stdout, returned>>

\* The loop is over: process_selectors returns valid_count, the aggregate rule
\* runs and test_dkim returns the result.
DkimFinish ==
    /\ pc = "dkim_loop"
    /\ sel > Len(common_selectors)
    /\ result' = apply_scoring_and_recommendations(result, valid_count)
    /\ log' = dkim_log(result, result')
    /\ returned' = Append(returned, result')
    /\ pc' = "returned"
    /\ UNCHANGED <<dns, argv, sel, valid_count, results, stdout>>

NextDKIM == UsageError \/ DkimBegin \/ DkimProbe \/ DkimFinish \/ Output

SpecDKIM == InitDKIM /\ [][NextDKIM]_vars

(***************************************************************************)
(* The three evaluators together.                                          *)
(***************************************************************************)
InitEvaluators == InitSPF \/ InitDMARC \/ InitDKIM

NextEvaluators ==
    UsageError \/ SpfCall \/ DmarcCall \/ DkimBegin \/ DkimProbe \/ DkimFinish \/ Output

SpecEvaluators == InitEvaluators /\ [][NextEvaluators]_vars

(***************************************************************************)
(* test_runner.py as a process: its command lines and what the scripts it  *)
(* starts can do.                                                          *)
(***************************************************************************)
RunnerDomains == {Domain, " Example.COM ", "bad_domain.com", "-a.com", "a..b", ""}

RunnerTypes == {"spf", "dmarc", "dkim", "mail_echo", " SPF ", "foo", "all"}

RunnerCommands ==
    {<<"test_runner.py">>, <<"test_runner.py", Domain>>,
     <<"test_runner.py", "a..b">>, <<"test_runner.py", Domain, "spf", "x">>}
    \cup {<<"test_runner.py", d, t>> : d \in RunnerDomains, t \in RunnerTypes}

\* What a started script can do: print a result and exit 0, print an error object
\* and exit 1, die with a traceback, print nothing, or run into the timeout.
ChildRuns ==
    {[outcome |-> "exit", returncode |-> 0, stderr |-> "",
      stdout |-> [json |-> "object", value |-> v]] :
        v \in {[domain |-> Domain, score |-> 85, valid |-> TRUE],
               [domain |-> Domain, score |-> 60, valid |-> FALSE],
               [domain |-> Domain, status |-> "skipped"]}}
    \cup {[outcome |-> "exit", returncode |-> 1, stderr |-> "",
           stdout |-> [json |-> "object",
                       value |-> error_result("SPF test failed: x", Domain)]],
          [outcome |-> "exit", returncode |-> 0, stderr |-> "",
           stdout |-> [json |-> "none"]],
          [outcome |-> "exit", returncode |-> 0, stderr |-> "",
           stdout |-> [json |-> "array"]],
          [outcome |-> "timeout"]}

\* What time.time() measures over run_all_tests' loop, in hundredths of a second.
ExecutionTimes == {3, 6000}

InitRunner == \E cmd \in RunnerCommands : Start(cmd, EmptyDict)

\* main: domain = sys.argv[1].strip().lower()
runner_domain == lower(strip(argv[2]))

\* main without a domain argument: handle_error prints the usage error, exit 1.
RunnerUsage ==
    /\ script = "test_runner.py"
    /\ pc = "start"
    /\ Len(argv) < 2
    /\ stdout' = Append(stdout,
            error_result("Usage: python test_runner.py <domain> [test_type]", ""))
    /\ pc' = "exit1"
    /\ UNCHANGED <<dns, argv, result, log, sel, valid_count, results, returned>>

\* main on a domain validate_domain rejects: handle_error, exit 1.
RunnerInvalidDomain ==
    /\ script = "test_runner.py"
    /\ pc = "start"
    /\ Len(argv) >= 2
    /\ ~validate_domain(runner_domain)
    /\ stdout' = Append(stdout,
            error_result("Invalid domain format: " \o runner_domain, ""))
    /\ pc' = "exit1"
    /\ UNCHANGED <<dns, argv, result, log, sel, valid_count, results, returned>>

\* main with a test type: run_single_test(test_type, domain).  main has no
\* handler around the call, so an exception run_single_test raises ends the
\* process with a traceback and nothing on stdout.
RunSingle ==
    /\ script = "test_runner.py"
    /\ pc = "start"
    /\ Len(argv) = 3
    /\ validate_domain(runner_domain)
    /\ \E child \in ChildRuns :
         LET r == run_single_test(lower(strip(argv[3])), runner_domain, child)
         IN  IF IsRaised(r)
             THEN pc' = "crashed" /\ UNCHANGED result
             ELSE pc' = "returned" /\ result' = r
    /\ UNCHANGED <<dns, argv, log, sel, valid_count, results, stdout, returned>>

\* What the scripts started so far by run_all_tests' loop did, by test type.
runner_log(test_type, child) ==
    [calls    |-> log.calls + 1,
     children |-> SetItem(IF "children" \in DOMAIN log THEN log.children ELSE EmptyDict,
                          test_type, child)]

\* main without a test type: one turn of run_all_tests' loop.
RunAllTest ==
    /\ script = "test_runner.py"
    /\ pc \in {"start", "run_all"}
    /\ Len(argv) >= 2 /\ Len(argv) # 3
    /\ validate_domain(runner_domain)
    /\ Cardinality(DOMAIN results) < Len(test_types)
    /\ LET test_type == test_types[Cardinality(DOMAIN results) + 1]
       IN  \E child \in ChildRuns :
             /\ results' = SetItem(results, test_type,
                                   run_single_test(test_type, runner_domain, child))
             /\ log' = runner_log(test_type, child)
    /\ pc' = "run_all"
    /\ UNCHANGED <<dns, argv, result, sel, valid_count, stdout, returned>>

\* run_all_tests after the loop: the scores are summed up and the summary returned.
RunAllFinish ==
    /\ pc = "run_all"
    /\ Cardinality(DOMAIN results) = Len(test_types)
    /\ \E execution_time \in ExecutionTimes :
         result' = run_all_summary(runner_domain, results, execution_time)
    /\ pc' = "returned"
    /\ UNCHANGED <<dns, argv, log, sel, valid_count, results, stdout, returned>>

NextRunner ==
    RunnerUsage \/ RunnerInvalidDomain \/ RunSingle \/ RunAllTest \/ RunAllFinish \/ Output

SpecRunner == InitRunner /\ [][NextRunner]_vars

(***************************************************************************)
(* The parsers called directly: parse_dmarc_record(record) and             *)
(* parse_dkim_record(record) on records of up to MaxSegments segments      *)
(* joined by ";".  argv holds the function's name and its argument.        *)
(***************************************************************************)
DmarcSegments ==
    {"v=DMARC1", " P = Reject ", "PCT= 50 ", "pct=abc", "junk", "",
     "rua= mailto:a@y.com , mailto:b@y.com", "aspf=s=t", "=x"}

DkimSegments ==
    {"v=DKIM1", " K = RSA ", "p=QU JD", "P=abc\t", "junk", "", "h=sha1:sha256",
     "n=a=b", "=x"}

ParserCalls ==
    {<<"parse_dmarc_record", join(";", segs)>> : segs \in SeqsUpTo(DmarcSegments, MaxSegments)}
    \cup
    {<<"parse_dkim_record", join(";", segs)>> : segs \in SeqsUpTo(DkimSegments, MaxSegments)}

InitParse == \E call \in ParserCalls : Start(call, EmptyDict)

\* parse_dmarc_record(record) returns.
ParseDmarc ==
    /\ script = "parse_dmarc_record"
    /\ pc = "start"
    /\ result' = parse_dmarc_record(argv[2])
    /\ pc' = "returned"
    /\ UNCHANGED <<dns, argv, log, sel, valid_count, results, stdout, returned>>

\* parse_dkim_record(dkim_record) returns.
ParseDkim ==
    /\ script = "parse_dkim_record"
    /\ pc = "start"
    /\ result' = parse_dkim_record(argv[2])
    /\ pc' = "returned"
    /\ UNCHANGED <<dns, argv, log, sel, valid_count, results, stdout, returned>>

NextParse == ParseDmarc \/ ParseDkim

SpecParse == InitParse /\ [][NextParse]_vars

(***************************************************************************)
(* Properties of spf_test.py (checked under SpecSPF).                      *)
(***************************************************************************)
SpfReturned == script = "spf_test.py" /\ pc = "returned"

\* The whitespace-separated tokens of the record test_spf selected.
SpfTokens == split(result.record)

\* The all-qualifier tokens among toks, in token order.
AllTokens(toks) == SelectSeq(toks, LAMBDA t : t \in AllQualifiers)

\* The points section 4.2 step 2 of the specification gives each qualifier.
QualifierPoints(q) ==
    CASE q = "-all" -> 40 [] q = "~all" -> 25 [] q = "+all" -> 5 [] q = "?all" -> 10

\* Number of tokens after the v=spf1 tag that start with one of the prefixes.
TokensWithPrefix(toks, prefixes) ==
    Cardinality({i \in DOMAIN toks :
        /\ ~startswith(toks[i], "v=spf1")
        /\ \E p \in prefixes : startswith(toks[i], p)})

\* The lookup cost as section 4.2 step 1 of the specification classifies it.
SpecLookupCost(toks) ==
    TokensWithPrefix(toks, {"include:", "a", "mx", "ip4:", "ip6:", "exists:"})

\* The lookup cost without the ip4: and ip6: mechanisms.
LookupCostWithoutIp(toks) == TokensWithPrefix(toks, {"include:", "a", "mx", "exists:"})

HasLookupLimitIssue ==
    \E i \in DOMAIN result.issues :
        contains(result.issues[i], "DNS lookups") /\ contains(result.issues[i], "limit")

\* C1: for every selected SPF record whose last token is "-all", the
\* terminal-qualifier rule adds exactly 40 (so score >= 40), and the result is
\* valid whenever the computed dns_lookups is at most 10.
C1_DashAllLast ==
    (SpfReturned /\ result.record_found)
    => LET toks == SpfTokens
       IN  (toks # <<>> /\ toks[Len(toks)] = "-all")
           => /\ log.all = 40
              /\ result.score >= 40
              /\ (result.dns_lookups <= 10 => result.valid)

\* C1 witness: a returned record ending in "-all" after another qualifier, valid.
C1_Witness ==
    /\ SpfReturned /\ result.record_found
    /\ LET toks == SpfTokens
       IN  /\ toks[Len(toks)] = "-all"
           /\ AllTokens(toks) = <<"~all", "-all">>
    /\ log.all = 40 /\ result.valid

\* C2 as stated: every record with more than 10 lookup-cost mechanisms (include,
\* a, mx, ip4, ip6, exists) gets the lookup-limit issue, no +10 lookup bonus, and
\* valid = false.
C2_Original ==
    (SpfReturned /\ result.record_found /\ SpecLookupCost(SpfTokens) > 10)
    => HasLookupLimitIssue /\ log.lookups = 0 /\ ~result.valid

\* C2 amended: every record with more than 10 tokens that start with include:,
\* a, mx or exists: (ip4: and ip6: not counted) gets the lookup-limit issue, no
\* +10 lookup bonus, and valid = false.
C2_TooManyLookups ==
    (SpfReturned /\ result.record_found /\ LookupCostWithoutIp(SpfTokens) > 10)
    => HasLookupLimitIssue /\ log.lookups = 0 /\ ~result.valid

\* C2 witness: a returned record with 11 counted mechanisms and an all-qualifier.
C2_Witness ==
    /\ SpfReturned /\ result.record_found
    /\ LookupCostWithoutIp(SpfTokens) = 11 /\ result.includes_all
    /\ HasLookupLimitIssue /\ ~result.valid

\* C9 as stated: dns_lookups is the number of include, a, mx, ip4, ip6 and exists
\* tokens of the record.
C9_Original ==
    (SpfReturned /\ result.record_found) => result.dns_lookups = SpecLookupCost(SpfTokens)

\* C9 amended: dns_lookups is the number of tokens after the v=spf1 tag that start
\* with include:, a, mx or exists:, one unit each; ip4: and ip6: tokens, the
\* qualified all tokens and every other token add nothing.
C9_LookupCount ==
    (SpfReturned /\ result.record_found)
    => result.dns_lookups = LookupCostWithoutIp(SpfTokens)

\* C9 witness: a returned record with ip4: tokens and counted tokens.
C9_Witness ==
    /\ SpfReturned /\ result.record_found
    /\ result.dns_lookups = 2
    /\ SpecLookupCost(SpfTokens) = 5

\* C10 as stated: with more than one all-qualifier token, the first in token order
\* is reported as all_mechanism and scored.
C10_Original ==
    (SpfReturned /\ result.record_found)
    => LET alls == AllTokens(SpfTokens)
       IN  Len(alls) > 1
           => /\ result.all_mechanism = alls[1]
              /\ log.all = QualifierPoints(alls[1])

\* C10 amended: with more than one all-qualifier token, the last in token order is
\* reported as all_mechanism and scored.
C10_LastQualifierWins ==
    (SpfReturned /\ result.record_found)
    => LET alls == AllTokens(SpfTokens)
       IN  Len(alls) > 1
           => /\ result.all_mechanism = alls[Len(alls)]
              /\ log.all = QualifierPoints(alls[Len(alls)])

\* C10 witness: a returned record with two different all-qualifiers.
C10_Witness ==
    /\ SpfReturned /\ result.record_found
    /\ AllTokens(SpfTokens) = <<"-all", "+all">>
    /\ result.all_mechanism = "+all" /\ log.all = 5

(***************************************************************************)
(* Properties of dmarc_test.py (checked under SpecDMARC).                  *)
(***************************************************************************)
DmarcReturned == script = "dmarc_test.py" /\ pc = "returned"

\* The tag-value pairs of the record test_dmarc selected, one per
\* semicolon-separated segment: <<tag in lower case, value>>, both without the
\* blanks around them; <<"", "">> for a segment without "=".
DmarcPairs ==
    LET segs == split_on(result.record, ";")
    IN  [i \in DOMAIN segs |->
            IF contains(segs[i], "=")
            THEN LET tv == split_eq(segs[i]) IN <<lower(strip(tv[1])), strip(tv[2])>>
            ELSE <<"", "">>]

\* The record contains the pair tag=value.
HasPair(pairs, tag, value) == \E i \in DOMAIN pairs : pairs[i] = <<tag, value>>

HasTag(pairs, tag) == \E i \in DOMAIN pairs : pairs[i][1] = tag

\* The last pair of the record with this tag is tag=value.
LastPair(pairs, tag, value) ==
    \E i \in DOMAIN pairs :
        /\ pairs[i] = <<tag, value>>
        /\ \A j \in DOMAIN pairs : j > i => pairs[j][1] # tag

\* C3 as stated: every record starting with v=DMARC1 that contains p=reject,
\* pct=100 and rua=mailto:x@y.com, in any order, with any other tags and with
\* repeated tags, gets score >= 85 and valid = true.
C3_Original ==
    (DmarcReturned /\ result.record_found)
    => LET pairs == DmarcPairs
       IN  (/\ startswith(result.record, "v=DMARC1") /\ HasPair(pairs, "v", "DMARC1")
            /\ HasPair(pairs, "p", "reject") /\ HasPair(pairs, "pct", "100")
            /\ HasPair(pairs, "rua", "mailto:x@y.com"))
           => result.score >= 85 /\ result.valid

\* C3 amended: every selected record whose last v, p, pct and rua pairs are
\* v=DMARC1, p=reject, pct=100 and rua=mailto:x@y.com (in any order, with any
\* other tags; of a repeated tag the last occurrence counts) gets score >= 85
\* and valid = true.
C3_ReferencePolicy ==
    (DmarcReturned /\ result.record_found)
    => LET pairs == DmarcPairs
       IN  (/\ LastPair(pairs, "v", "DMARC1")
            /\ LastPair(pairs, "p", "reject") /\ LastPair(pairs, "pct", "100")
            /\ LastPair(pairs, "rua", "mailto:x@y.com"))
           => result.score >= 85 /\ result.valid

\* C3 witness: a returned record with a repeated p tag whose last p is reject.
C3_Witness ==
    /\ DmarcReturned /\ result.record_found
    /\ LET pairs == DmarcPairs
       IN  /\ LastPair(pairs, "v", "DMARC1")
           /\ HasPair(pairs, "p", "none") /\ LastPair(pairs, "p", "reject")
           /\ LastPair(pairs, "pct", "100") /\ LastPair(pairs, "rua", "mailto:x@y.com")
    /\ result.score = 85 /\ result.valid

ReportingEntry(list) ==
    \E i \in DOMAIN list :
        /\ contains(list[i], "Reporting")
        /\ contains(list[i], "crucial") \/ contains(list[i], "critical")

\* C8 as stated: every record whose policy is quarantine or reject and that has
\* no rua gets an entry in result.issues saying reporting is crucial.
C8_Original ==
    (/\ DmarcReturned /\ result.record_found
     /\ result.policy \in {"quarantine", "reject"}
     /\ result.rua_addresses = <<>>)
    => ReportingEntry(result.issues)

\* C8 amended: every record whose last p pair is quarantine or reject and that
\* has no rua tag gets an entry in result.recommendations (not in result.issues)
\* saying reporting addresses are crucial for quarantine/reject policies.
C8_ReportingRecommended ==
    (DmarcReturned /\ result.record_found)
    => LET pairs == DmarcPairs
       IN  (/\ LastPair(pairs, "p", "quarantine") \/ LastPair(pairs, "p", "reject")
            /\ ~HasTag(pairs, "rua"))
           => /\ ReportingEntry(result.recommendations)
              /\ ~ReportingEntry(result.issues)

\* C8 witness: a returned quarantine record without rua, with the recommendation.
C8_Witness ==
    /\ DmarcReturned /\ result.record_found
    /\ LET pairs == DmarcPairs
       IN  LastPair(pairs, "p", "quarantine") /\ ~HasTag(pairs, "rua")
    /\ ReportingEntry(result.recommendations)

(***************************************************************************)
(* Properties of dkim_test.py (checked under SpecDKIM).                    *)
(***************************************************************************)
DkimReturned == script = "dkim_test.py" /\ pc = "returned"

CandidateSelectors == Range(common_selectors)

\* The TXT strings published for a selector, joined.
SelectorRecord(s) == join("", dns_lookup(dkim_domain(s, result.domain), "TXT"))

\* The value of the selector's last p tag, None when its record has no p tag.
PTagValue(s) ==
    LET segs == split_on(SelectorRecord(s), ";")
        ps   == {i \in DOMAIN segs :
                    contains(segs[i], "=") /\ lower(strip(split_eq(segs[i])[1])) = "p"}
    IN  IF ps = {} THEN None
        ELSE strip(split_eq(segs[CHOOSE i \in ps : \A j \in ps : j <= i])[2])

\* The selector's p= value decodes to fewer than 50 bytes or does not decode.
ShortKey(s) ==
    LET value == PTagValue(s)
    IN  /\ value # None
        /\ LET n == b64decode_len(remove_chars(value, Whitespace))
           IN  n = BinasciiError \/ n < 50

\* C4: every selector whose p= value base64-decodes to fewer than 50 bytes, or
\* fails to decode, is classified invalid: it is not in valid_selectors, it is in
\* invalid_selectors, and an "Invalid public key" issue naming it is recorded.
C4_ShortKeyInvalid ==
    DkimReturned
    => \A s \in CandidateSelectors :
         ShortKey(s)
         => /\ ~Contains(result.valid_selectors, s)
            /\ Contains(result.invalid_selectors, s)
            /\ Contains(result.issues, "Invalid public key for selector: " \o s)

\* C4 witness: test_dkim has returned for a zone in which a selector publishes an
\* empty p= value; the selector is found but neither valid nor invalid.
C4_Witness ==
    /\ DkimReturned
    /\ \E s \in CandidateSelectors :
         /\ PTagValue(s) = ""
         /\ Contains(result.selectors_found, s)
         /\ ~Contains(result.valid_selectors, s)
         /\ ~Contains(result.invalid_selectors, s)

\* What a result says about one selector.
Classification(res, s) ==
    [tested     |-> Contains(res.selectors_tested, s),
     found      |-> Contains(res.selectors_found, s),
     valid      |-> Contains(res.valid_selectors, s),
     invalid    |-> Contains(res.invalid_selectors, s),
     public_key |-> {res.public_keys[k] : k \in DOMAIN res.public_keys \cap {s}},
     algorithm  |-> {res.key_algorithms[k] : k \in DOMAIN res.key_algorithms \cap {s}},
     key_size   |-> {res.key_sizes[k] : k \in DOMAIN res.key_sizes \cap {s}}]

\* The loop of process_selectors over the same answers, except that the selector
\* absent has no record.
RECURSIVE ProbeAllBut(_, _, _)
ProbeAllBut(st, i, absent) ==
    IF i > Len(common_selectors) THEN st
    ELSE LET selector == common_selectors[i]
         IN  ProbeAllBut(
                probe_selector(st, selector,
                    IF selector = absent THEN <<>>
                    ELSE dns_lookup(dkim_domain(selector, result.domain), "TXT")),
                i + 1, absent)

WithoutSelector(absent) ==
    ProbeAllBut([result |-> init_dkim_result(result.domain), valid_count |-> 0],
                1, absent).result

\* The selector's lookup fails, or its record is malformed: no p tag, or a key
\* that is too short or does not decode.
SelectorFails(s) ==
    LET answer == Resolve(dkim_domain(s, result.domain))
    IN  \/ answer.rcode = "TIMEOUT"
        \/ answer.rcode = "NOERROR" /\ (PTagValue(s) = None \/ ShortKey(s))

\* C6: a DNS failure or malformed record of one candidate selector never stops
\* the loop: when test_dkim returns, selectors_tested is the candidate list in
\* order, and every other selector is classified as in the run on the same
\* answers without the failing selector.
C6_IsolateAndContinue ==
    DkimReturned
    => /\ result.selectors_tested = common_selectors
       /\ \A f \in CandidateSelectors :
            SelectorFails(f)
            => LET other == WithoutSelector(f)
               IN  \A s \in CandidateSelectors \ {f} :
                     Classification(result, s) = Classification(other, s)

\* C6 witness: test_dkim has returned, the first selector's lookup timed out and a
\* later selector is valid.
C6_Witness ==
    /\ DkimReturned
    /\ Resolve(dkim_domain("default", result.domain)).rcode = "TIMEOUT"
    /\ Contains(result.valid_selectors, "gmail")
    /\ result.selectors_tested = common_selectors

WellFormedError(o) ==
    /\ {"error", "message"} \subseteq DOMAIN o
    /\ o.error = TRUE

\* The runner was started with a valid domain and a test type it does not know.
UnknownTypeRun ==
    /\ script = "test_runner.py"
    /\ Len(argv) = 3
    /\ validate_domain(runner_domain)
    /\ lower(strip(argv[3])) \notin DOMAIN script_map

\* C7: every invocation ends with one well-formed object on stdout and no
\* exception leaves the runner uncaught; an unknown test type passed to the
\* runner ends as a structured error object.
C7_StructuredOutcome ==
    /\ pc # "crashed"
    /\ pc \in {"exit0", "exit1"} => Len(stdout) = 1
    /\ (UnknownTypeRun /\ pc \in {"exit0", "exit1"}) => WellFormedError(stdout[1])

\* C7 witness: the runner, started with an unknown test type, has ended with the
\* uncaught ValueError and nothing on stdout.
C7_Witness == UnknownTypeRun /\ pc = "crashed" /\ stdout = <<>>

(***************************************************************************)
(* Further properties of spf_test.py (checked under SpecSPF).              *)
(***************************************************************************)
\* The strings of the apex TXT answer that start with v=spf1, in lookup order.
SpfStrings ==
    SelectSeq(dns_lookup(result.domain, "TXT"), LAMBDA r : startswith(r, "v=spf1"))

MultipleIssue == "Multiple SPF records found (RFC violation)"

MultipleAdvice == "Consolidate into a single SPF record"

\* test_spf's result for an answer that holds this SPF record and no other.
SoleRecordResult(record) ==
    LET r1     == check_spf_record_presence(spf_result_init(result.domain), record, 1)
        parsed == parse_spf_record(record)
    IN  spf_run(1, r1, record, parsed, count_dns_lookups(parsed.mechanisms))[9]

\* C11: with more than one TXT string starting with v=spf1, test_spf records the
\* "Multiple SPF records" issue and evaluates only the last of them in lookup
\* order: the record, the score and every other field are those of that record
\* alone, after the multiple-record issue and its recommendation; with exactly
\* one such string there is no multiple-record issue.
C11_LastSpfRecord ==
    SpfReturned
    => LET spfs == SpfStrings
       IN  /\ Len(spfs) > 1
              => LET sole == SoleRecordResult(spfs[Len(spfs)])
                 IN  result = [sole EXCEPT
                                 !.issues = <<MultipleIssue>> \o @,
                                 !.recommendations = <<MultipleAdvice>> \o @]
           /\ Len(spfs) = 1
              => /\ ~Contains(result.issues, MultipleIssue)
                 /\ result = SoleRecordResult(spfs[1])

\* C11 witness: test_spf has returned for an answer with two different SPF
\* records around another TXT string, and reports the second.
C11_Witness ==
    /\ SpfReturned
    /\ SpfStrings = <<"v=spf1 -all", "v=spf1 mx ~all">>
    /\ result.record = "v=spf1 mx ~all"
    /\ result.all_mechanism = "~all"
    /\ Contains(result.issues, MultipleIssue)

(***************************************************************************)
(* Further properties of dkim_test.py (checked under SpecDKIM).            *)
(***************************************************************************)
NoValidSelectorsIssue == "No valid DKIM selectors found"

BaselineRecommendations ==
    {"Implement DKIM signing for outbound emails",
     "Configure DKIM records with appropriate selectors",
     "Use at least 2048-bit RSA keys for security",
     "Test common selectors: default, google, mail"}

KeyRotationRecommendation == "Good: Multiple selectors configured for key rotation"

\* C12: with no valid selector the aggregate rule adds the "No valid DKIM
\* selectors found" issue and the baseline recommendations and no points; with
\* n >= 1 valid selectors it adds exactly 50 + 10*n, plus 5 once if "google" or
\* "gmail" is valid, plus 10 and the key-rotation recommendation if n >= 2.
C12_AggregateScore ==
    DkimReturned
    => LET n   == Len(result.valid_selectors)
           esp == Contains(result.valid_selectors, "google")
                    \/ Contains(result.valid_selectors, "gmail")
       IN  IF n = 0
           THEN /\ Contains(result.issues, NoValidSelectorsIssue)
                /\ \A r \in BaselineRecommendations : Contains(result.recommendations, r)
                /\ log.aggregate = 0
           ELSE /\ log.aggregate = 50 + 10 * n + (IF esp THEN 5 ELSE 0)
                                      + (IF n >= 2 THEN 10 ELSE 0)
                /\ n >= 2 <=> Contains(result.recommendations, KeyRotationRecommendation)
                /\ ~Contains(result.issues, NoValidSelectorsIssue)

\* C12 witness: test_dkim has returned with "google" and "gmail" both valid and
\* 50 + 20 + 5 + 10 aggregate points.
C12_Witness ==
    /\ DkimReturned
    /\ result.valid_selectors = <<"google", "gmail">>
    /\ log.aggregate = 85

(***************************************************************************)
(* Further properties of dmarc_test.py (checked under SpecDMARC).          *)
(***************************************************************************)
FullCoverageRecommendation == "Consider increasing percentage to 100% for full coverage"

ZeroPercentIssue == "Percentage set to 0%"

\* C13: for every evaluated DMARC record the reported percentage is an integer in
\* 0..100, 100 when the record has no pct tag; the percentage rule adds 15
\* exactly when it is 100, adds 10 with the full-coverage recommendation exactly
\* when it is in 1..99, and records the 0% issue without points exactly when it
\* is 0.
C13_PercentageInRange ==
    (DmarcReturned /\ result.record_found)
    => /\ result.percentage \in 0..100
       /\ ~HasTag(DmarcPairs, "pct") => result.percentage = 100
       /\ log.percentage = 15 <=> result.percentage = 100
       /\ (/\ log.percentage = 10
           /\ Contains(result.recommendations, FullCoverageRecommendation))
          <=> result.percentage \in 1..99
       /\ (/\ log.percentage = 0
           /\ Contains(result.issues, ZeroPercentIssue))
          <=> result.percentage = 0

\* C13 witness: test_dmarc has returned for a record with pct=150 and reports
\* the percentage 150, scored like a percentage below 100.
C13_Witness ==
    /\ DmarcReturned /\ result.record_found
    /\ LastPair(DmarcPairs, "pct", "150")
    /\ result.percentage = 150
    /\ log.percentage = 10

(***************************************************************************)
(* Properties of the three evaluators (checked under SpecEvaluators).      *)
(***************************************************************************)
\* The evaluator's lookup finds no matching record: no TXT string starting with
\* v=spf1 at the apex, none starting with v=DMARC1 at _dmarc, no candidate
\* selector whose record has a p tag.
NoMatchingRecord ==
    CASE script = "spf_test.py" ->
            LET txt == dns_lookup(result.domain, "TXT")
            IN  \A i \in DOMAIN txt : ~startswith(txt[i], "v=spf1")
      [] script = "dmarc_test.py" ->
            LET txt == dns_lookup("_dmarc." \o result.domain, "TXT")
            IN  \A i \in DOMAIN txt : ~startswith(txt[i], "v=DMARC1")
      [] script = "dkim_test.py" ->
            \A s \in CandidateSelectors : PTagValue(s) = None

\* The issue with which each evaluator reports the absence.
NotFoundIssue ==
    CASE script = "spf_test.py"   -> "No SPF record found"
      [] script = "dmarc_test.py" -> "No DMARC record found"
      [] script = "dkim_test.py"  -> NoValidSelectorsIssue

\* C14: when the lookup finds no matching record the evaluator returns a normal
\* result: record_found false and valid false (SPF, DMARC) or valid_selectors
\* empty (DKIM), score 0, the "No ... found" issue, a non-empty recommendations
\* list; the process prints that result and ends with status 0, and handle_error
\* runs for a wrong command line only.
C14_AbsenceIsResult ==
    /\ pc = "exit1" => Len(argv) # 2
    /\ (pc \in {"returned", "exit0"} /\ NoMatchingRecord)
       => /\ IF script = "dkim_test.py"
             THEN result.valid_selectors = <<>>
             ELSE ~result.record_found /\ ~result.valid
          /\ result.score = 0
          /\ Contains(result.issues, NotFoundIssue)
          /\ result.recommendations # <<>>
          /\ pc = "exit0" => stdout = <<result>>

\* C14 witness: dmarc_test.py has printed its result and ended with status 0 for
\* a _dmarc answer that holds only another TXT string.
C14_Witness ==
    /\ script = "dmarc_test.py"
    /\ pc = "exit0"
    /\ dns_lookup("_dmarc." \o result.domain, "TXT") = <<OtherTxt>>
    /\ stdout = <<result>>
    /\ ~result.record_found
    /\ Len(result.recommendations) = 4

(***************************************************************************)
(* Properties of the parsers (checked under SpecParse).                    *)
(***************************************************************************)
\* The tag-value pairs of a record, one per semicolon-separated segment:
\* <<the tag lower-cased and trimmed, the value trimmed>>, <<"", "">> for a
\* segment without "=".
PairsOf(record) ==
    LET segs == split_on(record, ";")
    IN  [i \in DOMAIN segs |->
            IF contains(segs[i], "=")
            THEN LET tv == split_eq(segs[i]) IN <<lower(strip(tv[1])), strip(tv[2])>>
            ELSE <<"", "">>]

\* The value of the last pair with this tag.
LastValue(pairs, tag) ==
    pairs[CHOOSE i \in DOMAIN pairs :
            pairs[i][1] = tag /\ \A j \in DOMAIN pairs : j > i => pairs[j][1] # tag][2]

\* The record without its segment i.
WithoutSegment(record, i) ==
    LET segs == split_on(record, ";")
    IN  join(";", SubSeq(segs, 1, i - 1) \o SubSeq(segs, i + 1, Len(segs)))

\* The fields that hold the value of a tag as it is.
DmarcTagField ==
    [v |-> "version", p |-> "policy", sp |-> "subdomain_policy",
     fo |-> "forensic_options", aspf |-> "alignment_spf", adkim |-> "alignment_dkim"]

DkimTagField == [v |-> "version", k |-> "algorithm", p |-> "public_key"]

\* Every field of a tag holds the trimmed value of the last pair whose
\* lower-cased tag it is, and its default when there is no such pair.
FieldsFollowPairs(parsed, pairs, fields, defaults) ==
    \A tag \in DOMAIN fields :
        parsed[fields[tag]] = IF HasTag(pairs, tag) THEN LastValue(pairs, tag)
                              ELSE defaults[fields[tag]]

\* C15: parse_dmarc_record and parse_dkim_record return a mapping for every input
\* (they never raise); tags are matched after lower-casing and values are
\* trimmed (parse_dkim_record sees the record without its blanks); a segment
\* without "=" is dropped: the result equals that of the record without it.
C15_TolerantParsing ==
    /\ pc # "crashed"
    /\ (script = "parse_dmarc_record" /\ pc = "returned")
       => LET record == argv[2]
              segs   == split_on(record, ";")
          IN  /\ DOMAIN result = DOMAIN dmarc_policy_data_init
              /\ FieldsFollowPairs(result, PairsOf(record), DmarcTagField,
                                   dmarc_policy_data_init)
              /\ \A i \in DOMAIN segs :
                    ~contains(segs[i], "=")
                    => result = parse_dmarc_record(WithoutSegment(record, i))
    /\ (script = "parse_dkim_record" /\ pc = "returned")
       => LET record == argv[2]
              segs   == split_on(record, ";")
          IN  /\ DOMAIN result = DOMAIN dkim_parsed_init
              /\ FieldsFollowPairs(result, PairsOf(remove_chars(record, {" "})),
                                   DkimTagField, dkim_parsed_init)
              /\ \A i \in DOMAIN segs :
                    ~contains(segs[i], "=")
                    => result = parse_dkim_record(WithoutSegment(record, i))

\* C15 witness: parse_dkim_record has returned for a record with an upper-case
\* tag, blanks around a value and a segment without "=".
C15_Witness ==
    /\ script = "parse_dkim_record" /\ pc = "returned"
    /\ argv[2] = " K = RSA ;junk;P=abc\t"
    /\ result.algorithm = "RSA"
    /\ result.public_key = "abc"

(***************************************************************************)
(* Properties of run_all_tests (checked under SpecRunner).                 *)
(***************************************************************************)
\* run_all_tests has returned its summary.
RunAllReturned ==
    /\ script = "test_runner.py"
    /\ pc = "returned"
    /\ Len(argv) # 3

\* The started script timed out, exited with a failure, or printed no JSON object.
ChildFailed(child) ==
    \/ child.outcome = "timeout"
    \/ child.returncode # 0
    \/ child.stdout.json # "object"

\* An error entry of 'tests' for this test type.
ErrorEntry(entry, test_type) ==
    /\ DOMAIN entry = {"test_type", "domain", "error", "message", "result"}
    /\ entry.test_type = test_type
    /\ entry.domain = runner_domain
    /\ entry.error = TRUE
    /\ entry.result = EmptyDict

\* The test types whose script completed and printed a score.
ScoredTests == {t \in Range(test_types) : ~ChildFailed(log.children[t])
                                          /\ "score" \in DOMAIN log.children[t].stdout.value}

\* The sum of the scores the completed scripts printed.
ScoredTotal ==
    LET s(t) == IF t \in ScoredTests THEN log.children[t].stdout.value.score ELSE 0
    IN  s("dmarc") + s("spf") + s("dkim") + s("mail_echo")

\* Every test type has its entry in 'tests' whatever the tests before it did:
\* an error entry for a failed script, the printed result (with test_type and
\* domain set) for a completed one.
AllTestsReported ==
    /\ DOMAIN result.tests = Range(test_types)
    /\ \A t \in Range(test_types) :
          LET child == log.children[t]
          IN  IF ChildFailed(child)
              THEN ErrorEntry(result.tests[t], t)
              ELSE result.tests[t] =
                      SetItem(SetItem(child.stdout.value, "test_type", t),
                              "domain", runner_domain)
    /\ result.summary.successful_tests = Cardinality(ScoredTests)
    /\ result.summary.failed_tests = Len(test_types) - Cardinality(ScoredTests)

\* C16 (amended): whatever run_all_tests' scripts do (time out, fail, print
\* garbage), the loop runs all four tests, 'tests' holds an error entry for each
\* failed one and the result of each completed one, and overall_score is the
\* mean score of the completed tests rounded to one decimal place (0 when none
\* completed).  overall_score is held in tenths.
C16_PartialResults ==
    /\ (script = "test_runner.py" /\ Len(argv) # 3) => pc # "crashed"
    /\ RunAllReturned
       => /\ AllTestsReported
          /\ LET n == Cardinality(ScoredTests)
                 d == result.overall_score * n - 10 * ScoredTotal
             IN  IF n = 0 THEN result.overall_score = 0
                 ELSE 2 * d <= n /\ -2 * d <= n

\* C16 as stated: overall_score is the mean score of the completed tests.
C16_Original ==
    /\ (script = "test_runner.py" /\ Len(argv) # 3) => pc # "crashed"
    /\ RunAllReturned
       => /\ AllTestsReported
          /\ LET n == Cardinality(ScoredTests)
             IN  IF n = 0 THEN result.overall_score = 0
                 ELSE result.overall_score * n = 10 * ScoredTotal

\* C16 witness: the first test timed out, the three after it completed with
\* scores 85, 60 and 85, and the summary reports 76.7 over three tests.
C16_Witness ==
    /\ RunAllReturned
    /\ log.children["dmarc"].outcome = "timeout"
    /\ result.tests["dmarc"].message = "Test timed out after 60 seconds"
    /\ ScoredTests = {"spf", "dkim", "mail_echo"}
    /\ result.tests["spf"].score = 85
    /\ result.tests["dkim"].score = 60
    /\ result.tests["mail_echo"].score = 85
    /\ result.overall_score = 767
    /\ result.summary.failed_tests = 1

(***************************************************************************)
(* Properties of the per-key rule of dkim_test.py (checked under SpecDKIM).*)
(***************************************************************************)
\* The value of the selector's last k tag, "rsa" when its record has none.
KTagValue(s) ==
    LET segs == split_on(SelectorRecord(s), ";")
        ks   == {i \in DOMAIN segs :
                    contains(segs[i], "=") /\ lower(strip(split_eq(segs[i])[1])) = "k"}
    IN  IF ks = {} THEN "rsa"
        ELSE strip(split_eq(segs[CHOOSE i \in ks : \A j \in ks : j <= i])[2])

\* The number of bytes the selector's p= value decodes to.
DecodedLength(s) == b64decode_len(remove_chars(PTagValue(s), Whitespace))

\* The size band of a decoded length.
SizeBand(n) ==
    CASE n > 400 -> 4096
      [] n > 250 /\ n <= 400 -> 2048
      [] n > 150 /\ n <= 250 -> 1024
      [] OTHER -> 512

\* The points of the per-key rule for a key size.
SizePoints(size) == IF size >= 2048 THEN 10 ELSE IF size = 1024 THEN 5 ELSE 0

\* The per-key points of a set of valid selectors.
RECURSIVE KeyPoints(_)
KeyPoints(S) ==
    IF S = {} THEN 0
    ELSE LET s == CHOOSE s \in S : TRUE
         IN  (IF KTagValue(s) = "rsa" THEN SizePoints(SizeBand(DecodedLength(s))) ELSE 0)
                + KeyPoints(S \ {s})

\* C17: when test_dkim returns, every valid RSA selector has the key size of its
\* decoded length's band (> 400 -> 4096, > 250 -> 2048, > 150 -> 1024, else 512);
\* the score before the aggregate rule is +10 per key of 2048 or more and +5 per
\* key of 1024; a key of 1024 has its upgrade recommendation and no issue, a key
\* below 1024 decodes to 50..150 bytes and has its weak-key issue and no
\* recommendation, a larger key has neither; a valid selector that is not RSA
\* has no key size, no points, no recommendation and no issue.
C17_KeySizeBands ==
    DkimReturned
    => /\ log.keys = KeyPoints(Range(result.valid_selectors))
       /\ \A s \in Range(result.valid_selectors) :
            LET n       == DecodedLength(s)
                upgrade == Contains(result.recommendations,
                               "Consider upgrading " \o s \o " key to 2048+ bits")
                weak    == \E i \in DOMAIN result.issues :
                               startswith(result.issues[i], "Weak key size for " \o s \o ":")
            IN  IF KTagValue(s) = "rsa"
                THEN /\ s \in DOMAIN result.key_sizes
                     /\ result.key_sizes[s] = SizeBand(n)
                     /\ upgrade <=> result.key_sizes[s] = 1024
                     /\ weak <=> result.key_sizes[s] < 1024
                     /\ weak => /\ n >= 50 /\ n <= 150
                                /\ Contains(result.issues,
                                       "Weak key size for " \o s \o ": 512 bits")
                ELSE /\ s \notin DOMAIN result.key_sizes
                     /\ ~upgrade /\ ~weak

\* C17 witness: test_dkim has returned for a zone whose only record is an RSA key
\* of 151 bytes: the selector is valid with key size 1024, +5 and the upgrade
\* recommendation.
C17_Witness ==
    /\ DkimReturned
    /\ result.valid_selectors = <<"google">>
    /\ KTagValue("google") = "rsa"
    /\ DecodedLength("google") = 151
    /\ result.key_sizes["google"] = 1024
    /\ log.keys = 5
    /\ Contains(result.recommendations, "Consider upgrading google key to 2048+ bits")

\* test_dkim is in its loop or has returned: result is the DKIM result.
DkimProbing == script = "dkim_test.py" /\ pc \in {"dkim_loop", "returned", "exit0"}

\* C18: after any number of turns of process_selectors' loop, and after
\* test_dkim has returned: valid_selectors and invalid_selectors are disjoint,
\* both are within selectors_found, selectors_found is within selectors_tested,
\* the keys of key_sizes are valid selectors, and valid_count is the length of
\* valid_selectors.
C18_ResultInvariant ==
    DkimProbing
    => LET tested  == Range(result.selectors_tested)
           found   == Range(result.selectors_found)
           valid   == Range(result.valid_selectors)
           invalid == Range(result.invalid_selectors)
       IN  /\ valid \cap invalid = {}
           /\ valid \subseteq found
           /\ invalid \subseteq found
           /\ found \subseteq tested
           /\ DOMAIN result.key_sizes \subseteq valid
           /\ valid_count = Len(result.valid_selectors)

\* C18 witness: in the middle of the loop, after the turns for the first four
\* selectors: one with a valid RSA key, two without a record and one with a key
\* that is too short.
C18_Witness ==
    /\ script = "dkim_test.py" /\ pc = "dkim_loop"
    /\ sel = 5
    /\ result.selectors_tested = <<"default", "selector1", "selector2", "google">>
    /\ result.selectors_found = <<"default", "google">>
    /\ result.valid_selectors = <<"default">>
    /\ result.invalid_selectors = <<"google">>
    /\ DOMAIN result.key_sizes = {"default"}
    /\ valid_count = 1

====
